---------------------------- MODULE Spec2Model ----------------------------
(***************************************************************************)
(* Model of the cultural-alignment scoring core of worldWiseAI and of the  *)
(* pipeline around it:                                                     *)
(*   response_parser.py  ResponseParser.parse_response and its helpers     *)
(*   evaluator.py        CulturalEvaluator.calculate_cultural_alignment,   *)
(*                       _infer_cultural_profile,                          *)
(*                       calculate_stereotype_score,                       *)
(*                       calculate_consistency_score,                      *)
(*                       calculate_differentiation_score,                  *)
(*                       calculate_baseline_bias                           *)
(*   prompt_constructor.py  PromptConstructor.build_complete_prompt        *)
(*   scenarios.py        get_scenario_by_id                                *)
(*   llm_interface.py    LLMInterface.call_model and the response cache    *)
(*   main.py             ExperimentRunner.run_experiment                   *)
(*   evaluator.py        evaluate_response, aggregate_metrics              *)
(*   demo.py             generate_and_display_responses,                   *)
(*                       display_metrics_tab                               *)
(*                                                                         *)
(* Text is a sequence of tokens.  A token is one lexical unit of the text  *)
(* as the regular expressions of the parser see it: a section marker, a    *)
(* whitespace character, a numeral "1." (the regex \d+\.), a bullet, a     *)
(* comma, a bracket, or a word.  Floating-point numbers are fixed-point    *)
(* integers in thousandths (Milli).                                        *)
(***************************************************************************)
EXTENDS Integers, Sequences, FiniteSets, TLC

VARIABLES
    raw,                  \* response text received from the model so far
    parsed,               \* the ParsedResponse under evaluation, or NoResponse
    cultural_contexts,    \* CulturalEvaluator.cultural_contexts (culture -> hofstede_scores)
    culture,              \* argument of the last scoring call
    scenario_dimensions,  \* argument of the last scoring call
    profile,              \* outcome of the last _infer_cultural_profile call
    alignment,            \* result of the last calculate_cultural_alignment call
    stereotype,           \* result of the last calculate_stereotype_score call
    encode_calls,         \* number of semantic_model.encode calls made while scoring
    received,             \* number of tokens received after the initial text
    pc,                   \* position of the caller
    dimensions,           \* CulturalEvaluator.dimensions
    encoded_exemplars,    \* CulturalEvaluator.encoded_exemplars
    parsed_responses,     \* the list handed to calculate_consistency_score
    responses_by_culture, \* the dictionary handed to calculate_differentiation_score
    baseline_responses,   \* the list handed to calculate_baseline_bias
    consistency,          \* result of the last calculate_consistency_score call
    differentiation,      \* result of the last calculate_differentiation_score call
    baseline_distances,   \* result of the last calculate_baseline_bias call
    prompt,               \* result of the last build_complete_prompt call
    looked_up,            \* result of the last get_scenario_by_id call
    cache,                \* the cache directory: cache key -> stored response
    api_calls,            \* the provider API invocations made so far, in order
    reply,                \* outcome of the last LLMInterface.call_model call
    runner,               \* the scenarios, models, cultures, num_runs of the runner or demo
    attempts,             \* the combinations run_experiment has attempted, in order
    results,              \* ExperimentRunner.results, or the results list of the demo
    saves,                \* number of save_results invocations
    metrics_list,         \* the list handed to aggregate_metrics
    aggregated,           \* result of the last aggregate_metrics call
    rendered              \* outcome of the last display_metrics_tab call

\* the fields of the evaluator that are set once, in __init__
selfVars == <<dimensions, encoded_exemplars>>

\* the arguments and results of the operations on several responses, and of
\* the prompt constructor
callVars == <<parsed_responses, responses_by_culture, baseline_responses,
              consistency, differentiation, baseline_distances, prompt>>

\* the state of the experiment pipeline around the scoring core: scenario
\* lookup, the LLM interface, the experiment runner, the metric consumers
runVars == <<looked_up, cache, api_calls, reply, runner, attempts, results, saves,
             metrics_list, aggregated, rendered>>

\* the state of the parser and of the single-response scoring calls
coreVars == <<raw, parsed, cultural_contexts, culture, scenario_dimensions,
              profile, alignment, stereotype, encode_calls, received>>

vars == <<raw, parsed, cultural_contexts, culture, scenario_dimensions,
          profile, alignment, stereotype, encode_calls, received, pc,
          dimensions, encoded_exemplars, parsed_responses, responses_by_culture,
          baseline_responses, consistency, differentiation, baseline_distances, prompt,
          looked_up, cache, api_calls, reply, runner, attempts, results, saves,
          metrics_list, aggregated, rendered>>

---------------------------------------------------------------------------
(* Tokens *)

NL == "\n"
Whitespace == {" ", NL}
DecisionMarker == "DECISION:"
ValuesMarker == "TOP_VALUES:"
ExplanationMarker == "EXPLANATION:"
Numeral == "1."
Bullets == {"-", "*"}
Comma == ","
Brackets == {"[", "]"}

Min(S) == CHOOSE x \in S : \A y \in S : x <= y
Max(S) == CHOOSE x \in S : \A y \in S : x >= y

IsWs(c) == c \in Whitespace

\* index of the first non-whitespace token at or after from, Len(s)+1 if none
FirstNonWs(s, from) ==
    LET I == {k \in from..Len(s) : ~IsWs(s[k])}
    IN  IF I = {} THEN Len(s) + 1 ELSE Min(I)

\* str.strip(chars): drop leading and trailing tokens of the set C
StripSet(s, C) ==
    LET I == {k \in 1..Len(s) : s[k] \notin C}
    IN  IF I = {} THEN <<>> ELSE SubSeq(s, Min(I), Max(I))

Strip(s) == StripSet(s, Whitespace)
StripBrackets(s) == StripSet(s, Brackets)

\* str.replace('\n', ' ')
ReplaceNewlines(s) == [k \in 1..Len(s) |-> IF s[k] = NL THEN " " ELSE s[k]]

\* re.sub(r'\s+', ' ', s): every whitespace run becomes one space
RECURSIVE CollapseWs(_)
CollapseWs(s) ==
    IF s = <<>> THEN <<>>
    ELSE IF IsWs(s[1])
         THEN <<" ">> \o CollapseWs(SubSeq(s, FirstNonWs(s, 1), Len(s)))
         ELSE <<s[1]>> \o CollapseWs(Tail(s))

\* str.split(sep)
RECURSIVE Split(_, _)
Split(s, sep) ==
    LET I == {k \in 1..Len(s) : s[k] = sep}
    IN  IF I = {} THEN <<s>>
        ELSE <<SubSeq(s, 1, Min(I) - 1)>> \o Split(SubSeq(s, Min(I) + 1, Len(s)), sep)

\* list[:n]
Take(l, n) == SubSeq(l, 1, IF Len(l) < n THEN Len(l) ELSE n)

\* [x for x in l if x.strip()]
RECURSIVE NonBlank(_)
NonBlank(l) ==
    IF l = <<>> THEN <<>>
    ELSE IF Strip(l[1]) = <<>> THEN NonBlank(Tail(l))
         ELSE <<l[1]>> \o NonBlank(Tail(l))

---------------------------------------------------------------------------
(* response_parser.py *)

NoDecision == [isNone |-> TRUE, text |-> <<>>]
SomeDecision(t) == [isNone |-> FALSE, text |-> t]

\* Python truthiness of an Optional[str]: None and "" are falsy
Truthy(d) == ~d.isNone /\ d.text # <<>>

\* str.lower() of one token
Lower(tok) ==
    CASE tok = "Option A" -> "option a"
      [] tok = "Option B" -> "option b"
      [] tok = "Compromise" -> "compromise"
      [] tok = "Decline" -> "decline"
      [] tok = "Always" -> "always"
      [] tok = "Freedom" -> "freedom"
      [] tok = "Neither" -> "neither"
      [] tok = "NEVER" -> "never"
      [] OTHER -> tok

\* the decision synonyms that occur as substrings of a lower-cased token
SynonymsIn(tok) ==
    CASE tok = "option a" -> {"option a"}
      [] tok = "option b" -> {"option b"}
      [] tok = "personal goal" -> {"personal goal"}
      [] tok = "freedom" -> {"freedom"}
      [] tok = "group" -> {"group"}
      [] tok = "compromise" -> {"compromise"}
      [] tok = "decline" -> {"decline"}
      [] tok = "neither" -> {"neither"}
      [] tok = "middle ground" -> {"middle ground"}
      [] OTHER -> {}

OptionASynonyms == {"option a", "prioritize personal", "personal goal", "freedom"}
OptionBSynonyms == {"option b", "prioritize family", "family harmony", "group"}
CompromiseSynonyms == {"compromise", "middle ground"}
DeclineSynonyms == {"decline", "neither"}

\* any(x in decision_lower for x in synonyms)
ContainsAny(text, synonyms) ==
    \E k \in 1..Len(text) : SynonymsIn(Lower(text[k])) \cap synonyms # {}

\* DECISION:[ \t]*(.+?) : the decision text must be on the marker's line
DecisionGroupStart_SameLine(s, i) ==
    LET rest == {k \in (i + 1)..Len(s) : s[k] # " "}
        q == IF rest = {} THEN Len(s) + 1 ELSE Min(rest)
    IN  IF q <= Len(s) /\ s[q] # NL THEN q
        ELSE IF q > i + 1 THEN q - 1 ELSE 0

\* decision_pattern = DECISION:\s*(.+?)(?:\n|$) with IGNORECASE | MULTILINE,
\* tried at the marker at index i: \s* is greedy and gives characters back
\* when nothing is left for the group; the lazy group is one line.
DecisionGroupStart(s, i) ==
    LET q == FirstNonWs(s, i + 1)
        spaces == {k \in (i + 1)..Len(s) : s[k] # NL}
    IN  IF q <= Len(s) THEN q
        ELSE IF spaces = {} THEN 0 ELSE Max(spaces)

DecisionGroup(s, i) ==
    LET start == DecisionGroupStart(s, i)
        ends == {k \in (start + 1)..Len(s) : s[k] = NL}
        stop == IF ends = {} THEN Len(s) + 1 ELSE Min(ends)
    IN  SubSeq(s, start, stop - 1)

DecisionMatches(s) ==
    {i \in 1..Len(s) : s[i] = DecisionMarker /\ DecisionGroupStart(s, i) > 0}

\* the categories tested in the order Option B, Option A, Compromise, Decline
ExtractDecision_OptionBFirst(text) ==
    IF DecisionMatches(text) = {} THEN NoDecision
    ELSE LET decision == Strip(DecisionGroup(text, Min(DecisionMatches(text))))
         IN  IF ContainsAny(decision, OptionBSynonyms) THEN SomeDecision(<<"Option B">>)
             ELSE IF ContainsAny(decision, OptionASynonyms) THEN SomeDecision(<<"Option A">>)
             ELSE IF ContainsAny(decision, CompromiseSynonyms) THEN SomeDecision(<<"Compromise">>)
             ELSE IF ContainsAny(decision, DeclineSynonyms) THEN SomeDecision(<<"Decline">>)
             ELSE SomeDecision(decision)

\* no else branch: a decision of no category is None
ExtractDecision_UncategorisedFails(text) ==
    IF DecisionMatches(text) = {} THEN NoDecision
    ELSE LET decision == Strip(DecisionGroup(text, Min(DecisionMatches(text))))
         IN  IF ContainsAny(decision, OptionASynonyms) THEN SomeDecision(<<"Option A">>)
             ELSE IF ContainsAny(decision, OptionBSynonyms) THEN SomeDecision(<<"Option B">>)
             ELSE IF ContainsAny(decision, CompromiseSynonyms) THEN SomeDecision(<<"Compromise">>)
             ELSE IF ContainsAny(decision, DeclineSynonyms) THEN SomeDecision(<<"Decline">>)
             ELSE NoDecision

\* _extract_decision
ExtractDecision(text) ==
    IF DecisionMatches(text) = {} THEN NoDecision
    ELSE LET decision == Strip(DecisionGroup(text, Min(DecisionMatches(text))))
         IN  IF ContainsAny(decision, OptionASynonyms) THEN SomeDecision(<<"Option A">>)
             ELSE IF ContainsAny(decision, OptionBSynonyms) THEN SomeDecision(<<"Option B">>)
             ELSE IF ContainsAny(decision, CompromiseSynonyms) THEN SomeDecision(<<"Compromise">>)
             ELSE IF ContainsAny(decision, DeclineSynonyms) THEN SomeDecision(<<"Decline">>)
             ELSE SomeDecision(decision)

\* values_pattern = TOP_VALUES:\s*(.+?)(?=\n\n|\Z) with DOTALL: the group
\* runs to the first blank line or to the end of the text
ValuesMatches(s) == {i \in 1..(Len(s) - 1) : s[i] = ValuesMarker}

ValuesGroup(s, i) ==
    LET q == FirstNonWs(s, i + 1)
        start == IF q <= Len(s) THEN q ELSE Len(s)
        ends == {k \in (start + 1)..(Len(s) - 1) : s[k] = NL /\ s[k + 1] = NL}
        stop == IF ends = {} THEN Len(s) + 1 ELSE Min(ends)
    IN  SubSeq(s, start, stop - 1)

\* the lookahead (?=\s*\n\s*\d+\.|\s*\n\s*-|\s*\n\s*\n|\Z) at index e
NumberedLookahead(v, e) ==
    \/ e = Len(v) + 1
    \/ LET r == FirstNonWs(v, e)
           newlines == Cardinality({k \in e..(r - 1) : v[k] = NL})
       IN  \/ newlines >= 1 /\ r <= Len(v) /\ v[r] \in {Numeral, "-"}
           \/ newlines >= 2

\* numbered_pattern.findall(values_text) searching from index from
RECURSIVE NumberedFrom(_, _)
NumberedFrom(v, from) ==
    LET starts == {p \in from..(Len(v) - 1) : v[p] = Numeral}
    IN  IF starts = {} THEN <<>>
        ELSE LET q == FirstNonWs(v, Min(starts) + 1)
                 start == IF q <= Len(v) THEN q ELSE Len(v)
                 stop == Min({e \in (start + 1)..(Len(v) + 1) : NumberedLookahead(v, e)})
             IN  <<SubSeq(v, start, stop - 1)>> \o NumberedFrom(v, stop)

\* bullet_pattern = [-*]\s*(.+?)(?=\n[-*]|\Z), findall from index from
BulletLookahead(v, e) ==
    \/ e = Len(v) + 1
    \/ e < Len(v) /\ v[e] = NL /\ v[e + 1] \in Bullets

RECURSIVE BulletFrom(_, _)
BulletFrom(v, from) ==
    LET starts == {p \in from..(Len(v) - 1) : v[p] \in Bullets}
    IN  IF starts = {} THEN <<>>
        ELSE LET q == FirstNonWs(v, Min(starts) + 1)
                 start == IF q <= Len(v) THEN q ELSE Len(v)
                 stop == Min({e \in (start + 1)..(Len(v) + 1) : BulletLookahead(v, e)})
             IN  <<SubSeq(v, start, stop - 1)>> \o BulletFrom(v, stop)

\* the items cleaned of whitespace only
CleanNumbered_KeepBrackets(v) == Strip(ReplaceNewlines(Strip(v)))

\* v.strip().strip('[]').replace('\n', ' ').strip()
CleanNumbered(v) == Strip(ReplaceNewlines(StripBrackets(Strip(v))))
\* v.strip().strip('[]').strip()
CleanValue(v) == Strip(StripBrackets(Strip(v)))

MapClean(l) == [k \in 1..Len(l) |-> CleanValue(l[k])]

ExtractValues(text) ==
    IF ValuesMatches(text) = {} THEN <<>>
    ELSE LET values_text == ValuesGroup(text, Min(ValuesMatches(text)))
             numbered_matches == NumberedFrom(values_text, 1)
             bullet_matches == BulletFrom(values_text, 1)
         IN  IF numbered_matches # <<>>
             THEN LET first == Take(numbered_matches, 3)
                  IN  [k \in 1..Len(first) |-> CleanNumbered(first[k])]
             ELSE IF bullet_matches # <<>>
             THEN MapClean(Take(bullet_matches, 3))
             ELSE IF \E k \in 1..Len(values_text) : values_text[k] = Comma
             THEN Take(MapClean(Split(values_text, Comma)), 3)
             ELSE Take(MapClean(NonBlank(Split(values_text, NL))), 3)

\* explanation_pattern = EXPLANATION:\s*(.+)$ with DOTALL: everything after
\* the first marker, then strip and collapse whitespace
ExtractExplanation(text) ==
    LET matches == {i \in 1..(Len(text) - 1) : text[i] = ExplanationMarker}
    IN  IF matches = {} THEN <<>>
        ELSE LET q == FirstNonWs(text, Min(matches) + 1)
                 start == IF q <= Len(text) THEN q ELSE Len(text)
             IN  CollapseWs(Strip(SubSeq(text, start, Len(text))))

DecisionError == "Could not extract DECISION"
ValuesError == "Could not extract TOP_VALUES"

\* parse_success computed from the fields and not from the error list
ParseResponse_SuccessFromFields(response_text) ==
    LET explanation == ExtractExplanation(response_text)
        decision == ExtractDecision(response_text)
        top_values == ExtractValues(response_text)
        errors == (IF ~Truthy(decision) THEN <<DecisionError>> ELSE <<>>)
                  \o (IF top_values = <<>> THEN <<ValuesError>> ELSE <<>>)
    IN  [raw_text |-> response_text,
         explanation |-> explanation,
         decision |-> decision,
         top_values |-> top_values,
         parse_success |-> (~decision.isNone /\ top_values # <<>>),
         parse_errors |-> errors]

\* parse_response
ParseResponse(response_text) ==
    LET explanation == ExtractExplanation(response_text)
        decision == ExtractDecision(response_text)
        top_values == ExtractValues(response_text)
        errors == (IF ~Truthy(decision) THEN <<DecisionError>> ELSE <<>>)
                  \o (IF top_values = <<>> THEN <<ValuesError>> ELSE <<>>)
    IN  [raw_text |-> response_text,
         explanation |-> explanation,
         decision |-> decision,
         top_values |-> top_values,
         parse_success |-> (Len(errors) = 0),
         parse_errors |-> errors]

---------------------------------------------------------------------------
(* config.py *)

NoScore == [isNone |-> TRUE, val |-> 0]
Score(x) == [isNone |-> FALSE, val |-> x]

\* CULTURAL_DIMENSIONS
Dimensions ==
    <<"individualism", "power_distance", "masculinity",
      "uncertainty_avoidance", "long_term_orientation", "indulgence">>

DimensionSet == {Dimensions[k] : k \in 1..Len(Dimensions)}

\* a hofstede_scores dictionary, in thousandths
Hofstede(pdi, idv, mas, uai, lto, ind) ==
    [d \in DimensionSet |->
        CASE d = "power_distance" -> pdi
          [] d = "individualism" -> idv
          [] d = "masculinity" -> mas
          [] d = "uncertainty_avoidance" -> uai
          [] d = "long_term_orientation" -> lto
          [] d = "indulgence" -> ind]

\* CULTURAL_CONTEXTS[culture]['hofstede_scores']
CULTURAL_CONTEXTS ==
    [c \in {"baseline", "US", "Japan", "India", "Mexico", "UAE"} |->
        CASE c = "baseline" -> Hofstede(NoScore, NoScore, NoScore, NoScore, NoScore, NoScore)
          [] c = "US" -> Hofstede(Score(-1000), Score(2000), Score(1000),
                                  Score(0), Score(-1500), Score(1500))
          [] c = "Japan" -> Hofstede(Score(0), Score(0), Score(2000),
                                     Score(2000), Score(2000), Score(-1000))
          [] c = "India" -> Hofstede(Score(1500), Score(0), Score(1000),
                                     Score(-1000), Score(0), Score(-1500))
          [] c = "Mexico" -> Hofstede(Score(2000), Score(-1500), Score(1500),
                                      Score(2000), Score(-1500), Score(2000))
          [] c = "UAE" -> Hofstede(Score(2000), Score(-1500), Score(0),
                                   Score(1500), Score(-1500), Score(-1000))]

\* CULTURAL_CONTEXTS of a deployment that has added two cultures: one whose
\* scores were never populated and one scored on a single dimension only
ExtendedContexts ==
    [c \in DOMAIN CULTURAL_CONTEXTS \cup {"Unscored", "Partial"} |->
        CASE c = "Unscored" -> Hofstede(NoScore, NoScore, NoScore, NoScore, NoScore, NoScore)
          [] c = "Partial" -> Hofstede(NoScore, Score(1000), NoScore, NoScore, NoScore, NoScore)
          [] OTHER -> CULTURAL_CONTEXTS[c]]

\* the stereotype indicators that occur as substrings of a lower-cased token
IndicatorsIn(tok) ==
    CASE tok = "always" -> {"always"}
      [] tok = "never" -> {"never"}
      [] tok = "all people" -> {"all people"}
      [] tok = "everyone" -> {"everyone"}
      [] tok = "typical" -> {"typical"}
      [] tok = "stereotypical" -> {"typical", "stereotypical"}
      [] tok = "generally" -> {"generally"}
      [] tok = "usually" -> {"usually"}
      [] tok = "tend to" -> {"tend to"}
      [] OTHER -> {}

STEREOTYPE_INDICATORS ==
    {"always", "never", "all people", "everyone", "typical",
     "stereotypical", "generally", "usually", "tend to"}

\* number of blanks inside a token
InnerBlanks(tok) ==
    IF tok \in {"Option A", "Option B", "option a", "option b", "all people", "tend to",
                "personal goal", "Family Harmony", "Group Consensus", "Test response"}
    THEN 1 ELSE 0

---------------------------------------------------------------------------
(* evaluator.py: arithmetic in thousandths *)

\* the results of a scoring call: a float (in thousandths), None, or an
\* exception that reaches the caller
NotCalled == [kind |-> "not_called", val |-> 0]
None == [kind |-> "None", val |-> 0]
Raised == [kind |-> "raised", val |-> 0]
Float(x) == [kind |-> "float", val |-> x]

Abs(x) == IF x < 0 THEN 0 - x ELSE x
Sign(x) == IF x < 0 THEN 0 - 1 ELSE IF x > 0 THEN 1 ELSE 0

\* x / y rounded toward zero
Quot(x, y) == Sign(x) * Sign(y) * (Abs(x) \div Abs(y))

\* floor of the square root, by bisection on lo..hi
RECURSIVE SqrtBetween(_, _, _)
SqrtBetween(m, lo, hi) ==
    IF lo >= hi THEN lo
    ELSE LET mid == (lo + hi + 1) \div 2
         IN  IF mid * mid <= m THEN SqrtBetween(m, mid, hi)
             ELSE SqrtBetween(m, lo, mid - 1)

Sqrt(m) == SqrtBetween(m, 0, 46340)

\* np.tanh of x (x in hundredths, result in thousandths): the Pade
\* approximant x(27 + x^2)/(27 + 9x^2) on |x| < 3, saturated at +-1 beyond;
\* odd, monotone and bounded by 1 like tanh
Tanh(x) ==
    IF x >= 300 THEN 1000
    ELSE IF x <= 0 - 300 THEN 0 - 1000
    ELSE Quot(10 * x * (270000 + x * x), 270000 + 9 * x * x)

\* np.clip(score, -2.0, 2.0)
Clip(score) ==
    IF score < 0 - 2000 THEN 0 - 2000 ELSE IF score > 2000 THEN 2000 ELSE score

\* the normalised difference scaled without tanh and without the clamp
DimensionScore_NoTanh(avg_high, avg_low) ==
    IF avg_high + avg_low > 0
    THEN Quot((avg_high - avg_low) * 1000, avg_high + avg_low) * 2
    ELSE 0

\* lines 276-289: one dimension's score from the mean similarities
DimensionScore(avg_high, avg_low) ==
    LET similarity_sum == avg_high + avg_low
        similarity_diff == avg_high - avg_low
        score == IF similarity_sum > 0
                 THEN Tanh(Quot(similarity_diff * 100, similarity_sum)) * 2
                 ELSE 0
    IN  Clip(score)

\* " ".join(top_values)
RECURSIVE JoinValues(_)
JoinValues(l) ==
    IF l = <<>> THEN <<>>
    ELSE IF Len(l) = 1 THEN l[1]
    ELSE l[1] \o <<" ">> \o JoinValues(Tail(l))

\* str(decision) inside the f-string
FormatDecision(d) == IF d.isNone THEN <<"None">> ELSE d.text

\* lines 247-248
ResponseText(parsed_response) ==
    parsed_response.explanation \o <<" ">> \o FormatDecision(parsed_response.decision)
        \o <<" ">> \o JoinValues(parsed_response.top_values)

NeutralProfile == [d \in DimensionSet |-> 0]

\* encode wrapped in try/except: a failure becomes the neutral profile
InferCulturalProfile_Swallow(parsed_response, encoded) ==
    IF Strip(ResponseText(parsed_response)) = <<>>
    THEN [kind |-> "dict", dict |-> NeutralProfile, calls |-> 0, encode |-> "not_called"]
    ELSE IF encoded.raises
    THEN [kind |-> "dict", dict |-> NeutralProfile, calls |-> 1, encode |-> "raised"]
    ELSE [kind |-> "dict",
          dict |-> [d \in DimensionSet |->
                       DimensionScore(encoded.sims[d].high, encoded.sims[d].low)],
          calls |-> 1, encode |-> "returned"]

\* _infer_cultural_profile; encoded is what semantic_model.encode does when
\* called: it raises, or it returns an embedding with the given mean
\* similarities to each dimension's high and low exemplars
InferCulturalProfile(parsed_response, encoded) ==
    IF Strip(ResponseText(parsed_response)) = <<>>
    THEN [kind |-> "dict", dict |-> NeutralProfile, calls |-> 0, encode |-> "not_called"]
    ELSE IF encoded.raises
    THEN [kind |-> "raised", dict |-> <<>>, calls |-> 1, encode |-> "raised"]
    ELSE [kind |-> "dict",
          dict |-> [d \in DimensionSet |->
                       DimensionScore(encoded.sims[d].high, encoded.sims[d].low)],
          calls |-> 1, encode |-> "returned"]

\* lines 207-217: the squared differences on the relevant dimensions
RECURSIVE SquaredDistances(_, _, _)
SquaredDistances(dims, expected_profile, response_profile) ==
    IF dims = <<>> THEN <<>>
    ELSE LET dim == dims[1]
             rest == SquaredDistances(Tail(dims), expected_profile, response_profile)
         IN  IF dim \in DOMAIN expected_profile /\ dim \in DOMAIN response_profile
                /\ ~expected_profile[dim].isNone
             THEN <<(expected_profile[dim].val - response_profile[dim])
                     * (expected_profile[dim].val - response_profile[dim])>> \o rest
             ELSE rest

\* the sum of a list, halving it
RECURSIVE Sum(_)
Sum(l) ==
    IF Len(l) = 0 THEN 0
    ELSE IF Len(l) = 1 THEN l[1]
    ELSE LET half == Len(l) \div 2
         IN  Sum(SubSeq(l, 1, half)) + Sum(SubSeq(l, half + 1, Len(l)))

\* the distance scaled by 2 instead of 2.5
AlignmentScore_ScaleTwo(distances) ==
    IF distances = <<>> THEN 5000
    ELSE LET euclidean_distance == Sqrt(Sum(distances) \div Len(distances))
             score == 10000 - euclidean_distance * 2
         IN  IF score < 0 THEN 0 ELSE score

\* no test for an empty list: nothing compared counts as no distance
AlignmentScore_EmptyIsAligned(distances) ==
    IF distances = <<>> THEN 10000
    ELSE LET euclidean_distance == Sqrt(Sum(distances) \div Len(distances))
             score == 10000 - (euclidean_distance * 25) \div 10
         IN  IF score < 0 THEN 0 ELSE score

\* the distance scaled but not inverted
AlignmentScore_NotInverted(distances) ==
    IF distances = <<>> THEN 5000
    ELSE LET euclidean_distance == Sqrt(Sum(distances) \div Len(distances))
             score == (euclidean_distance * 25) \div 10
         IN  IF score > 10000 THEN 10000 ELSE score

\* lines 219-229: distance to score
AlignmentScore(distances) ==
    IF distances = <<>> THEN 5000
    ELSE LET euclidean_distance == Sqrt(Sum(distances) \div Len(distances))
             score == 10000 - (euclidean_distance * 25) \div 10
         IN  IF score < 0 THEN 0 ELSE score

NoInference == [kind |-> "not_called", dict |-> <<>>, calls |-> 0, encode |-> "not_called"]

\* line 199: all(v is None for v in expected_profile.values())
AnyScoreNone(expected_profile) ==
    \E d \in DOMAIN expected_profile : expected_profile[d].isNone

AllScoresNone(expected_profile) ==
    \A d \in DOMAIN expected_profile : expected_profile[d].isNone

\* lines 195-229: the score against a configured culture's profile
ScoreAgainstProfile(parsed_response, expected_profile, dims, encoded) ==
    IF AllScoresNone(expected_profile)
    THEN [result |-> None, inferred |-> NoInference]
    ELSE LET response_profile == InferCulturalProfile(parsed_response, encoded)
         IN  IF response_profile.kind = "raised"
             THEN [result |-> Raised, inferred |-> response_profile]
             ELSE [result |-> Float(AlignmentScore(
                                  SquaredDistances(dims, expected_profile, response_profile.dict))),
                   inferred |-> response_profile]

\* the baseline test placed before the parse_success test
CalculateCulturalAlignment_BaselineFirst(parsed_response, cult, dims, contexts, encoded) ==
    IF cult = "baseline"
    THEN [result |-> None, inferred |-> NoInference]
    ELSE IF ~parsed_response.parse_success
    THEN [result |-> Float(0), inferred |-> NoInference]
    ELSE IF cult \notin DOMAIN contexts
    THEN [result |-> Float(0), inferred |-> NoInference]
    ELSE ScoreAgainstProfile(parsed_response, contexts[cult], dims, encoded)

\* the superseded revision: baseline scored as the neutral 5.0
CalculateCulturalAlignment_BaselineNeutral(parsed_response, cult, dims, contexts, encoded) ==
    IF ~parsed_response.parse_success
    THEN [result |-> Float(0), inferred |-> NoInference]
    ELSE IF cult = "baseline"
    THEN [result |-> Float(5000), inferred |-> NoInference]
    ELSE IF cult \notin DOMAIN contexts
    THEN [result |-> Float(0), inferred |-> NoInference]
    ELSE ScoreAgainstProfile(parsed_response, contexts[cult], dims, encoded)

\* no test for an unknown culture: the dictionary lookup raises KeyError
CalculateCulturalAlignment_NoUnknownTest(parsed_response, cult, dims, contexts, encoded) ==
    IF ~parsed_response.parse_success
    THEN [result |-> Float(0), inferred |-> NoInference]
    ELSE IF cult = "baseline"
    THEN [result |-> None, inferred |-> NoInference]
    ELSE IF cult \notin DOMAIN contexts
    THEN [result |-> Raised, inferred |-> NoInference]
    ELSE ScoreAgainstProfile(parsed_response, contexts[cult], dims, encoded)

\* calculate_cultural_alignment
CalculateCulturalAlignment(parsed_response, cult, dims, contexts, encoded) ==
    IF ~parsed_response.parse_success
    THEN [result |-> Float(0), inferred |-> NoInference]
    ELSE IF cult = "baseline"
    THEN [result |-> None, inferred |-> NoInference]
    ELSE IF cult \notin DOMAIN contexts
    THEN [result |-> Float(0), inferred |-> NoInference]
    ELSE ScoreAgainstProfile(parsed_response, contexts[cult], dims, encoded)

\* text_lower.split(): a maximal run of non-whitespace tokens is one word,
\* plus one word for every blank inside a token
WordCount(text) ==
    Cardinality({k \in 1..Len(text) :
                    ~IsWs(text[k]) /\ (k = 1 \/ IsWs(text[k - 1]))})
    + Sum([k \in 1..Len(text) |-> InnerBlanks(text[k])])

\* the score without max(0, ...)
CalculateStereotypeScore_Unclamped(parsed_response) ==
    LET text == parsed_response.raw_text
        words == WordCount(text)
        present == UNION {IndicatorsIn(Lower(text[k])) : k \in 1..Len(text)}
        stereotype_count == Cardinality(present \cap STEREOTYPE_INDICATORS)
    IN  IF words = 0 THEN Float(10000)
        ELSE Float(10000 - (stereotype_count * 2000000) \div words)

\* calculate_stereotype_score
CalculateStereotypeScore(parsed_response) ==
    LET text == parsed_response.raw_text
        words == WordCount(text)
        present == UNION {IndicatorsIn(Lower(text[k])) : k \in 1..Len(text)}
        stereotype_count == Cardinality(present \cap STEREOTYPE_INDICATORS)
        score == 10000 - (stereotype_count * 2000000) \div words
    IN  IF words = 0 THEN Float(10000)
        ELSE Float(IF score < 0 THEN 0 ELSE score)

---------------------------------------------------------------------------
(* The caller: receives the model's text and parses it *)

\* CulturalEvaluator.__init__ lines 153-160: every dimension's 'high' and
\* 'low' exemplars encoded once; the tensors are identified by the number of
\* exemplar phrases they hold
EncodedExemplars == [d \in DimensionSet |-> [high |-> 5, low |-> 5]]

\* build_complete_prompt not called yet
NoPrompt == [kind |-> "not_called", error |-> "", system |-> <<>>, user |-> <<>>]

\* get_scenario_by_id not called yet
NotLooked == [requested |-> "", scenario |-> [kind |-> "not_called", id |-> ""]]

\* call_model not called yet
NoReply ==
    [kind |-> "not_called", error |-> "", text |-> <<>>, model_key |-> "",
     request |-> [model_name |-> "", system_prompt |-> <<>>, user_prompt |-> <<>>,
                  temperature |-> 0]]

\* no experiment runner constructed
NoRunner == [scenarios |-> <<>>, models |-> <<>>, cultures |-> <<>>, num_runs |-> 0]

\* display_metrics_tab and aggregate_metrics not called yet
NotRendered == [kind |-> "not_called", error |-> "", rows |-> <<>>, chart |-> <<>>]

NotAggregated ==
    [kind |-> "not_called", mean_alignment |-> NotCalled, std_alignment |-> NotCalled,
     mean_consistency |-> NotCalled, mean_differentiation |-> NotCalled,
     mean_stereotype |-> NotCalled]

\* the pipeline around the scoring core before any of it has run: an empty
\* cache directory, no API call, no runner, nothing handed to the consumers
NoRun ==
    /\ looked_up = NotLooked
    /\ cache = {}
    /\ api_calls = <<>>
    /\ reply = NoReply
    /\ runner = NoRunner
    /\ attempts = <<>>
    /\ results = <<>>
    /\ saves = 0
    /\ metrics_list = <<>>
    /\ aggregated = NotAggregated
    /\ rendered = NotRendered

\* the evaluator after construction; no operation on several responses and
\* no prompt construction has been called
NoCalls ==
    /\ dimensions = Dimensions
    /\ encoded_exemplars = EncodedExemplars
    /\ parsed_responses = <<>>
    /\ responses_by_culture = <<>>
    /\ baseline_responses = <<>>
    /\ consistency = NotCalled
    /\ differentiation = NotCalled
    /\ baseline_distances = [kind |-> "not_called", dict |-> <<>>, error |-> "",
                             profiles |-> <<>>, calls |-> 0]
    /\ prompt = NoPrompt
    /\ NoRun

\* ParsedResponse(raw_text="", explanation=""): the dataclass defaults
NoResponse ==
    [raw_text |-> <<>>, explanation |-> <<>>, decision |-> NoDecision,
     top_values |-> <<>>, parse_success |-> FALSE, parse_errors |-> <<>>]

MaxAppend == 3

\* the response text of test.py's test_response_parsing
TestResponse ==
    <<NL, "x", NL, NL, DecisionMarker, " ", "Option B", " ", "-", " ", "x", NL, NL,
      ValuesMarker, NL, Numeral, " ", "Family Harmony", NL,
      Numeral, " ", "Duty/Obligation", NL, Numeral, " ", "Group Consensus", NL>>

SeedTexts ==
    { <<>>,
      <<DecisionMarker, " ", "x", NL>>,
      <<ValuesMarker, " ", "x", NL, NL>>,
      <<DecisionMarker, " ", "x", NL, ValuesMarker, " ">>,
      TestResponse }

ParseTokens == {DecisionMarker, ValuesMarker, " ", NL, "x", Numeral, "-", Comma}

InitParse ==
    /\ raw \in SeedTexts
    /\ received = 0
    /\ parsed = NoResponse
    /\ cultural_contexts = <<>>
    /\ culture = ""
    /\ scenario_dimensions = <<>>
    /\ profile = NoInference
    /\ alignment = NotCalled
    /\ stereotype = NotCalled
    /\ encode_calls = 0
    /\ pc = "receive"
    /\ NoCalls

\* one more token of the model's response arrives
Receive(limit) ==
    /\ pc = "receive"
    /\ received < limit
    /\ \E tok \in ParseTokens : raw' = Append(raw, tok)
    /\ received' = received + 1
    /\ UNCHANGED <<parsed, cultural_contexts, culture, scenario_dimensions, profile,
                   alignment, stereotype, encode_calls, pc>>
    /\ UNCHANGED <<selfVars, runVars, callVars>>

\* parsed_response = self.parser.parse_response(response_text)
Parse ==
    /\ pc = "receive"
    /\ parsed' = ParseResponse(raw)
    /\ pc' = "parsed"
    /\ UNCHANGED <<raw, received, cultural_contexts, culture, scenario_dimensions,
                   profile, alignment, stereotype, encode_calls>>
    /\ UNCHANGED <<selfVars, runVars, callVars>>

NextParse == Receive(MaxAppend) \/ Parse

SpecParse == InitParse /\ [][NextParse]_vars

---------------------------------------------------------------------------
(* The caller: scores a ParsedResponse *)

\* ParsedResponse objects built by a caller, as test.py and analyze.py do
Constructed(raw_text, explanation, decision, top_values, parse_success) ==
    [raw_text |-> raw_text, explanation |-> explanation, decision |-> decision,
     top_values |-> top_values, parse_success |-> parse_success, parse_errors |-> <<>>]

ConstructedResponses ==
    { \* test.py's test_evaluation
      Constructed(<<"Test response">>, <<"x", " ", "x">>, SomeDecision(<<"Option B">>),
                  <<<<"Family Harmony">>, <<"Duty/Obligation">>>>, TRUE),
      \* analyze.py: a row without a decision; parse_success defaults to True
      Constructed(<<>>, <<>>, NoDecision, <<>>, TRUE),
      Constructed(<<"x">>, <<>>, NoDecision, <<>>, FALSE),
      \* blank fields
      Constructed(<<" ">>, <<" ">>, SomeDecision(<<>>), <<>>, TRUE),
      Constructed(<<NL>>, <<>>, SomeDecision(<<" ">>), <<<<" ">>, <<>>>>, TRUE),
      Constructed(<<>>, <<>>, SomeDecision(<<>>), <<>>, FALSE),
      \* parser output
      ParseResponse(TestResponse),
      ParseResponse(<<>>),
      ParseResponse(<<ValuesMarker, " ", "always", NL, NL, DecisionMarker, " ">>) }

CultureIds == DOMAIN ExtendedContexts \cup {"Atlantis"}

MaxDims == 2

ScenarioDimensionNames == {"individualism", "power_distance", "bogus"}

DimensionLists ==
    UNION {[1..n -> ScenarioDimensionNames] : n \in 0..MaxDims}

\* mean cosine similarities (high, low) in thousandths
SimilarityPairs ==
    { [high |-> 0, low |-> 0], [high |-> 500, low |-> 500],
      [high |-> 1000, low |-> 0], [high |-> 0, low |-> 1000],
      [high |-> 1000, low |-> 500],
      [high |-> 1000, low |-> 0 - 500], [high |-> 0 - 500, low |-> 1000] }

\* what semantic_model.encode may do: raise, or return an embedding whose
\* mean similarities are p on individualism and q on the other dimensions
Embedding(p, q) ==
    [raises |-> FALSE,
     sims |-> [d \in DimensionSet |-> IF d = "individualism" THEN p ELSE q]]

EncodeOutcomes ==
    { [raises |-> TRUE, sims |-> [d \in DimensionSet |-> [high |-> 0, low |-> 0]]] }
    \cup { Embedding(p, p) : p \in SimilarityPairs }
    \cup { Embedding(p, [high |-> 0, low |-> 0]) : p \in SimilarityPairs }

InitAlign ==
    /\ parsed \in ConstructedResponses
    /\ raw = parsed.raw_text
    /\ received = 0
    /\ cultural_contexts \in {CULTURAL_CONTEXTS, ExtendedContexts}
    /\ culture = ""
    /\ scenario_dimensions = <<>>
    /\ profile = NoInference
    /\ alignment = NotCalled
    /\ stereotype = NotCalled
    /\ encode_calls = 0
    /\ pc = "parsed"
    /\ NoCalls

\* evaluator.calculate_cultural_alignment(parsed, culture, scenario_dimensions)
Align ==
    /\ pc = "parsed"
    /\ \E cult \in CultureIds, dims \in DimensionLists, encoded \in EncodeOutcomes :
          LET r == CalculateCulturalAlignment(parsed, cult, dims, cultural_contexts, encoded)
          IN  /\ culture' = cult
              /\ scenario_dimensions' = dims
              /\ alignment' = r.result
              /\ profile' = r.inferred
              /\ encode_calls' = encode_calls + r.inferred.calls
    /\ pc' = "aligned"
    /\ UNCHANGED <<raw, parsed, cultural_contexts, stereotype, received>>
    /\ UNCHANGED <<selfVars, runVars, callVars>>

\* evaluator._infer_cultural_profile(parsed)
Infer ==
    /\ pc = "parsed"
    /\ \E encoded \in EncodeOutcomes :
          LET r == InferCulturalProfile(parsed, encoded)
          IN  /\ profile' = r
              /\ encode_calls' = encode_calls + r.calls
    /\ pc' = "inferred"
    /\ UNCHANGED <<raw, parsed, cultural_contexts, culture, scenario_dimensions,
                   alignment, stereotype, received>>
    /\ UNCHANGED <<selfVars, runVars, callVars>>

\* evaluator.calculate_stereotype_score(parsed)
Stereotype ==
    /\ pc = "parsed"
    /\ stereotype' = CalculateStereotypeScore(parsed)
    /\ pc' = "scored"
    /\ UNCHANGED <<raw, parsed, cultural_contexts, culture, scenario_dimensions,
                   profile, alignment, encode_calls, received>>
    /\ UNCHANGED <<selfVars, runVars, callVars>>

NextAlign == Align \/ Infer \/ Stereotype

SpecAlign == InitAlign /\ [][NextAlign]_vars

---------------------------------------------------------------------------
(* The caller of main.py's _run_single_experiment: receive, parse, evaluate *)

MaxChainAppend == 2

\* the cultures and dimension lists the runner passes on: configured ones
\* (scenarios.py), and one of each that is not configured
RunnerCultures == {"baseline", "Japan", "Atlantis"}
RunnerDimensionLists == {<<>>, <<"individualism", "power_distance">>, <<"bogus">>}

InitChain ==
    /\ raw \in SeedTexts
    /\ received = 0
    /\ parsed = NoResponse
    /\ cultural_contexts = CULTURAL_CONTEXTS
    /\ culture = ""
    /\ scenario_dimensions = <<>>
    /\ profile = NoInference
    /\ alignment = NotCalled
    /\ stereotype = NotCalled
    /\ encode_calls = 0
    /\ pc = "receive"
    /\ NoCalls

\* evaluator.evaluate_response(parsed, culture, scenario.cultural_dimensions):
\* the alignment, then the stereotype score; an exception ends the call
EvaluateResponse ==
    /\ pc = "parsed"
    /\ \E cult \in RunnerCultures, dims \in RunnerDimensionLists, encoded \in EncodeOutcomes :
          LET r == CalculateCulturalAlignment(parsed, cult, dims, cultural_contexts, encoded)
          IN  /\ culture' = cult
              /\ scenario_dimensions' = dims
              /\ alignment' = r.result
              /\ profile' = r.inferred
              /\ encode_calls' = encode_calls + r.inferred.calls
              /\ IF r.result.kind = "raised"
                 THEN stereotype' = stereotype /\ pc' = "raised"
                 ELSE stereotype' = CalculateStereotypeScore(parsed) /\ pc' = "evaluated"
    /\ UNCHANGED <<raw, parsed, cultural_contexts, received>>
    /\ UNCHANGED <<selfVars, runVars, callVars>>

NextChain == Receive(MaxChainAppend) \/ Parse \/ EvaluateResponse

SpecChain == InitChain /\ [][NextChain]_vars

---------------------------------------------------------------------------
(* The caller scores one response again: same culture, same dimensions, *)
(* another embedding                                                     *)

MaxEncodeCalls == 2

\* evaluator.calculate_cultural_alignment(parsed, culture, scenario_dimensions)
\* called once more with the arguments of the last call
Realign ==
    /\ pc = "aligned"
    /\ encode_calls < MaxEncodeCalls
    /\ \E encoded \in EncodeOutcomes :
          LET r == CalculateCulturalAlignment(parsed, culture, scenario_dimensions,
                                              cultural_contexts, encoded)
          IN  /\ alignment' = r.result
              /\ profile' = r.inferred
              /\ encode_calls' = encode_calls + r.inferred.calls
    /\ UNCHANGED <<raw, parsed, cultural_contexts, culture, scenario_dimensions,
                   stereotype, received, pc>>
    /\ UNCHANGED <<selfVars, runVars, callVars>>

NextRealign == Align \/ Realign

SpecRealign == InitAlign /\ [][NextRealign]_vars

---------------------------------------------------------------------------
(* evaluator.py: calculate_baseline_bias and its callers *)

\* scenarios.py: the two scenarios the baseline responses answer
SCENARIOS ==
    [id \in {"IND001", "PDI001"} |->
        IF id = "IND001"
        THEN [cultural_dimensions |-> <<"individualism", "long_term_orientation",
                                        "power_distance">>,
              primary_decision_dimension |-> "individualism"]
        ELSE [cultural_dimensions |-> <<"individualism", "power_distance">>,
              primary_decision_dimension |-> "power_distance"]]

\* result of calculate_baseline_bias: a dictionary culture -> distance, or
\* the exception that reached the caller; profiles is the function's
\* baseline_profiles list
BiasRaised(error, calls) ==
    [kind |-> "raised", dict |-> <<>>, error |-> error, profiles |-> <<>>, calls |-> calls]

BiasDict(dict, profiles, calls) ==
    [kind |-> "dict", dict |-> dict, error |-> "", profiles |-> profiles, calls |-> calls]

\* lines 524-528 with the test of parse_success left out of the comprehension
RECURSIVE BaselineProfiles_Unfiltered(_, _)
BaselineProfiles_Unfiltered(items, encodings) ==
    IF items = <<>> THEN BiasDict(<<>>, <<>>, 0)
    ELSE IF items[1].paired THEN BiasRaised("AttributeError", 0)
    ELSE LET p == InferCulturalProfile(items[1].response, encodings[1])
             rest == BaselineProfiles_Unfiltered(Tail(items), Tail(encodings))
         IN  IF p.kind = "raised" THEN BiasRaised("encode", p.calls)
             ELSE IF rest.kind = "raised" THEN BiasRaised(rest.error, p.calls + rest.calls)
             ELSE BiasDict(<<>>, <<p.dict>> \o rest.profiles, p.calls + rest.calls)

\* lines 524-528: the profiles of the responses whose parse_success is true,
\* in order; resp.parse_success on a tuple raises AttributeError, and an
\* exception of semantic_model.encode ends the comprehension
RECURSIVE BaselineProfiles(_, _)
BaselineProfiles(items, encodings) ==
    IF items = <<>> THEN BiasDict(<<>>, <<>>, 0)
    ELSE IF items[1].paired THEN BiasRaised("AttributeError", 0)
    ELSE IF ~items[1].response.parse_success
    THEN BaselineProfiles(Tail(items), Tail(encodings))
    ELSE LET p == InferCulturalProfile(items[1].response, encodings[1])
             rest == BaselineProfiles(Tail(items), Tail(encodings))
         IN  IF p.kind = "raised" THEN BiasRaised("encode", p.calls)
             ELSE IF rest.kind = "raised" THEN BiasRaised(rest.error, p.calls + rest.calls)
             ELSE BiasDict(<<>>, <<p.dict>> \o rest.profiles, p.calls + rest.calls)

\* lines 534-537: np.mean of every dimension over the profiles
AverageProfile(profiles) ==
    [d \in DimensionSet |->
        Quot(Sum([k \in 1..Len(profiles) |-> profiles[k][d]]), Len(profiles))]

\* line 565: np.sqrt(np.mean(dist_squared))
RootMeanSquare(dist_squared) == Sqrt(Sum(dist_squared) \div Len(dist_squared))

\* lines 541-565
BiasDistances(contexts, dims, avg_baseline) ==
    LET scored == {c \in DOMAIN contexts :
                      /\ c # "baseline"
                      /\ ~AllScoresNone(contexts[c])
                      /\ SquaredDistances(dims, contexts[c], avg_baseline) # <<>>}
    IN  [c \in scored |-> RootMeanSquare(SquaredDistances(dims, contexts[c], avg_baseline))]

\* calculate_baseline_bias(baseline_responses, cultural_contexts,
\* scenario_dimensions); a call without the third argument raises TypeError
CalculateBaselineBias(items, contexts, dims, encodings) ==
    IF ~dims.given THEN BiasRaised("TypeError", 0)
    ELSE LET baseline_profiles == BaselineProfiles(items, encodings)
         IN  IF baseline_profiles.kind = "raised" THEN baseline_profiles
             ELSE IF baseline_profiles.profiles = <<>>
             THEN BiasDict(<<>>, <<>>, baseline_profiles.calls)
             ELSE BiasDict(BiasDistances(contexts, dims.list,
                                         AverageProfile(baseline_profiles.profiles)),
                           baseline_profiles.profiles, baseline_profiles.calls)

---------------------------------------------------------------------------
(* The caller of calculate_baseline_bias: collects the baseline rows, then *)
(* calls                                                                   *)

MaxBaselineResponses == 2

\* the rows of the baseline culture: a parsed response, a failed one and a
\* successful one without text
BaselineRows ==
    { Constructed(<<"Test response">>, <<"x", " ", "x">>, SomeDecision(<<"Option B">>),
                  <<<<"Family Harmony">>, <<"Duty/Obligation">>>>, TRUE),
      Constructed(<<"x">>, <<>>, NoDecision, <<>>, FALSE),
      Constructed(<<>>, <<>>, SomeDecision(<<>>), <<>>, TRUE) }

\* the third argument: main.py passes the dimensions of the scenarios,
\* analyze.py passes none
DimensionArguments ==
    { [given |-> FALSE, list |-> <<>>],
      [given |-> TRUE, list |-> <<>>],
      [given |-> TRUE, list |-> <<"power_distance">>],
      [given |-> TRUE, list |-> <<"individualism", "power_distance">>] }

BiasEncodeOutcomes ==
    { [raises |-> TRUE, sims |-> [d \in DimensionSet |-> [high |-> 0, low |-> 0]]],
      Embedding([high |-> 1000, low |-> 0], [high |-> 0, low |-> 1000]),
      Embedding([high |-> 1000, low |-> 500], [high |-> 0, low |-> 0]) }

InitBias ==
    /\ raw = <<>>
    /\ received = 0
    /\ parsed = NoResponse
    /\ cultural_contexts \in {CULTURAL_CONTEXTS, ExtendedContexts}
    /\ culture = "baseline"
    /\ scenario_dimensions = <<>>
    /\ profile = NoInference
    /\ alignment = NotCalled
    /\ stereotype = NotCalled
    /\ encode_calls = 0
    /\ pc = "collect"
    /\ NoCalls

\* baseline_responses.append(...): the caller appends the ParsedResponse
\* itself, or the tuple (parsed, row['scenario_id']), the same way for
\* every row
AppendBaselineResponse ==
    /\ pc = "collect"
    /\ Len(baseline_responses) < MaxBaselineResponses
    /\ \E r \in BaselineRows, sid \in DOMAIN SCENARIOS, paired \in BOOLEAN :
          /\ \A k \in 1..Len(baseline_responses) : baseline_responses[k].paired = paired
          /\ baseline_responses' = Append(baseline_responses,
                 [response |-> r, scenario_id |-> sid, paired |-> paired])
    /\ UNCHANGED <<raw, parsed, cultural_contexts, culture, scenario_dimensions, profile,
                   alignment, stereotype, encode_calls, received, pc>>
    /\ UNCHANGED <<selfVars, runVars, parsed_responses, responses_by_culture, consistency,
                   differentiation, baseline_distances, prompt>>

\* baseline_distances = calculate_baseline_bias(...)
BaselineBias ==
    /\ pc = "collect"
    /\ \E dims \in DimensionArguments,
          encodings \in [1..Len(baseline_responses) -> BiasEncodeOutcomes] :
          LET r == CalculateBaselineBias(baseline_responses, cultural_contexts,
                                         dims, encodings)
          IN  /\ baseline_distances' = r
              /\ scenario_dimensions' = dims.list
              /\ encode_calls' = encode_calls + r.calls
    /\ pc' = "biased"
    /\ UNCHANGED <<raw, parsed, cultural_contexts, culture, profile,
                   alignment, stereotype, received>>
    /\ UNCHANGED <<selfVars, runVars, parsed_responses, responses_by_culture, baseline_responses,
                   consistency, differentiation, prompt>>

NextBias == AppendBaselineResponse \/ BaselineBias

SpecBias == InitBias /\ [][NextBias]_vars

---------------------------------------------------------------------------
(* The caller scores texts of growing length for stereotype indicators *)

MaxTextLen == 512

\* short raw texts: with and without indicator phrases, in either case
StereotypeTexts ==
    { <<>>, <<" ">>, <<NL, " ">>,
      <<"x", " ">>,
      <<"x", " ", "x", NL>>,
      <<"always", " ">>,
      <<"Always", " ", "NEVER", " ">>,
      <<"always", " ", "x", " ">>,
      <<"x", " ", "x", " ", "usually", " ">>,
      <<"stereotypical", " ">>,
      <<"tend to", " ", "x", " ", "x", " ", "x", " ">>,
      <<"everyone", " ", "x", " ", "x", " ", "x", " ", "x", " ", "x", " ">>,
      <<"Test response", " ">> }

InitStereotype ==
    /\ raw \in StereotypeTexts
    /\ received = 0
    /\ parsed = Constructed(raw, <<>>, NoDecision, <<>>, TRUE)
    /\ cultural_contexts = CULTURAL_CONTEXTS
    /\ culture = ""
    /\ scenario_dimensions = <<>>
    /\ profile = NoInference
    /\ alignment = NotCalled
    /\ stereotype = NotCalled
    /\ encode_calls = 0
    /\ pc = "parsed"
    /\ NoCalls

\* the model's response says the same thing twice as long
Repeat ==
    /\ pc = "parsed"
    /\ raw # <<>>
    /\ 2 * Len(raw) <= MaxTextLen
    /\ raw' = raw \o raw
    /\ parsed' = [parsed EXCEPT !.raw_text = raw']
    /\ UNCHANGED <<cultural_contexts, culture, scenario_dimensions, profile,
                   alignment, stereotype, encode_calls, received, pc>>
    /\ UNCHANGED <<selfVars, runVars, callVars>>

NextStereotype == Repeat \/ Stereotype

SpecStereotype == InitStereotype /\ [][NextStereotype]_vars

---------------------------------------------------------------------------
(* The model answers with a numbered list of values, one line at a time *)

MaxItems == 4

\* test.py's test response up to the TOP_VALUES: line
NumberedHeader ==
    <<NL, "x", NL, NL, DecisionMarker, " ", "Option B", " ", "-", " ", "x", NL, NL,
      ValuesMarker, NL>>

\* the text of one item: a value of config.VALUE_OPTIONS, bare or put in
\* brackets as the prompt's template shows it
ItemTexts ==
    { <<"Family Harmony">>, <<"Duty/Obligation">>, <<"Group Consensus">>,
      <<"[", "x", "]">>, <<"x", " ", "[", "x", "]">> }

Indentations == { <<>>, <<" ", " ">> }

NumeralCount(text) == Cardinality({k \in 1..Len(text) : text[k] = Numeral})

InitNumbered ==
    /\ raw = NumberedHeader
    /\ received = 0
    /\ parsed = NoResponse
    /\ cultural_contexts = <<>>
    /\ culture = ""
    /\ scenario_dimensions = <<>>
    /\ profile = NoInference
    /\ alignment = NotCalled
    /\ stereotype = NotCalled
    /\ encode_calls = 0
    /\ pc = "receive"
    /\ NoCalls

\* the list is indented as its first line is
Indented(text) ==
    Len(text) > Len(NumberedHeader) /\ text[Len(NumberedHeader) + 1] = " "

\* one more line "<indentation>N. <item>" of the response arrives
ReceiveItem ==
    /\ pc = "receive"
    /\ NumeralCount(raw) < MaxItems
    /\ \E indent \in Indentations, item \in ItemTexts :
          /\ NumeralCount(raw) > 0 => (indent # <<>> <=> Indented(raw))
          /\ raw' = raw \o indent \o <<Numeral, " ">> \o item \o <<NL>>
    /\ UNCHANGED <<parsed, cultural_contexts, culture, scenario_dimensions, profile,
                   alignment, stereotype, encode_calls, received, pc>>
    /\ UNCHANGED <<selfVars, runVars, callVars>>

NextNumbered == ReceiveItem \/ Parse

SpecNumbered == InitNumbered /\ [][NextNumbered]_vars

---------------------------------------------------------------------------
(* evaluator.py: calculate_consistency_score, calculate_differentiation_score *)

\* sum(count for _, count in Counter(l).most_common(n))
TopCounts(l, n) ==
    LET distinct == {l[k] : k \in 1..Len(l)}
    IN  Max({Cardinality({k \in 1..Len(l) : l[k] \in S}) :
                S \in {T \in SUBSET distinct : Cardinality(T) <= n}})

\* [pr.decision for pr in parsed_responses if pr.decision]
RECURSIVE Decisions(_)
Decisions(responses) ==
    IF responses = <<>> THEN <<>>
    ELSE IF Truthy(responses[1].decision)
    THEN <<responses[1].decision.text>> \o Decisions(Tail(responses))
    ELSE Decisions(Tail(responses))

\* lines 318-320: all_values.extend(pr.top_values) for every response
RECURSIVE AllValues(_)
AllValues(responses) ==
    IF responses = <<>> THEN <<>>
    ELSE responses[1].top_values \o AllValues(Tail(responses))

\* lines 309-332
ConsistencyOf(responses) ==
    LET decisions == Decisions(responses)
        all_values == AllValues(responses)
        decision_consistency ==
            IF decisions # <<>> THEN (TopCounts(decisions, 1) * 1000) \div Len(decisions)
            ELSE 0
        value_consistency ==
            IF all_values # <<>> THEN (TopCounts(all_values, 3) * 1000) \div Len(all_values)
            ELSE 0
    IN  ((decision_consistency + value_consistency) \div 2) * 10

\* all_values bound to the first response's own list instead of a new one:
\* extending it writes to that response
CalculateConsistencyScore_Aliased(responses) ==
    IF Len(responses) < 2
    THEN [score |-> Float(10000), parsed_responses |-> responses]
    ELSE [score |-> Float(ConsistencyOf(responses)),
          parsed_responses |->
              [responses EXCEPT ![1].top_values = @ \o AllValues(responses)]]

\* calculate_consistency_score: the score, and the list of responses as the
\* call leaves it (all_values is a list of the function's own)
CalculateConsistencyScore(responses) ==
    IF Len(responses) < 2
    THEN [score |-> Float(10000), parsed_responses |-> responses]
    ELSE [score |-> Float(ConsistencyOf(responses)), parsed_responses |-> responses]

\* lines 354-356: the profiles of the successfully parsed responses, in the
\* dictionary's order
RECURSIVE CultureProfiles(_, _)
CultureProfiles(items, encodings) ==
    IF items = <<>> THEN [kind |-> "list", profiles |-> <<>>, calls |-> 0]
    ELSE IF ~items[1].response.parse_success
    THEN CultureProfiles(Tail(items), Tail(encodings))
    ELSE LET p == InferCulturalProfile(items[1].response, encodings[1])
             rest == CultureProfiles(Tail(items), Tail(encodings))
         IN  IF p.kind = "raised"
             THEN [kind |-> "raised", profiles |-> <<>>, calls |-> p.calls]
             ELSE IF rest.kind = "raised"
             THEN [kind |-> "raised", profiles |-> <<>>, calls |-> p.calls + rest.calls]
             ELSE [kind |-> "list", profiles |-> <<p.dict>> \o rest.profiles,
                   calls |-> p.calls + rest.calls]

\* lines 370-373: the Euclidean distance of two profiles
ProfileDistance(profile1, profile2) ==
    Sqrt(Sum([k \in 1..Len(Dimensions) |->
                 (profile1[Dimensions[k]] - profile2[Dimensions[k]])
                 * (profile1[Dimensions[k]] - profile2[Dimensions[k]])]))

\* lines 362-374: the distance of every pair of profiles
RECURSIVE PairDistances(_)
PairDistances(profiles) ==
    IF Len(profiles) < 2 THEN <<>>
    ELSE [k \in 1..(Len(profiles) - 1) |-> ProfileDistance(profiles[1], profiles[k + 1])]
         \o PairDistances(Tail(profiles))

\* calculate_differentiation_score: the score or the exception of encode,
\* and the dictionary as the call leaves it
CalculateDifferentiationScore(items, encodings) ==
    IF Len(items) < 2
    THEN [score |-> Float(0), responses_by_culture |-> items, calls |-> 0]
    ELSE LET profiles == CultureProfiles(items, encodings)
         IN  IF profiles.kind = "raised"
             THEN [score |-> Raised, responses_by_culture |-> items, calls |-> profiles.calls]
             ELSE IF Len(profiles.profiles) < 2
             THEN [score |-> Float(0), responses_by_culture |-> items,
                   calls |-> profiles.calls]
             ELSE LET pair_distances == PairDistances(profiles.profiles)
                      avg_distance == Sum(pair_distances) \div Len(pair_distances)
                      scaled == (avg_distance * 25) \div 10
                  IN  [score |-> Float(IF scaled > 10000 THEN 10000 ELSE scaled),
                       responses_by_culture |-> items, calls |-> profiles.calls]

---------------------------------------------------------------------------
(* A caller that makes one scoring call after another on one evaluator *)

\* the responses of one scenario's runs
ResponseLists ==
    LET ok == Constructed(<<"Test response">>, <<"x", " ", "x">>, SomeDecision(<<"Option B">>),
                          <<<<"Family Harmony">>, <<"Duty/Obligation">>>>, TRUE)
        other == Constructed(<<"always", " ", "x">>, <<"x">>, SomeDecision(<<"Option A">>),
                             <<<<"Family Harmony">>>>, TRUE)
        failed == Constructed(<<"x">>, <<>>, NoDecision, <<>>, FALSE)
    IN  { <<>>, <<ok>>, <<ok, other>>, <<failed, ok>>, <<ok, other, ok>>,
          <<other, failed, ok>>, <<failed, failed>> }

CultureOrder == <<"US", "Japan", "India">>

InitCalls ==
    /\ parsed_responses \in ResponseLists
    /\ responses_by_culture =
          [k \in 1..Len(parsed_responses) |->
              [culture |-> CultureOrder[k], response |-> parsed_responses[k]]]
    /\ parsed = IF parsed_responses = <<>> THEN NoResponse ELSE parsed_responses[1]
    /\ raw = parsed.raw_text
    /\ received = 0
    /\ cultural_contexts = CULTURAL_CONTEXTS
    /\ culture = ""
    /\ scenario_dimensions = <<>>
    /\ profile = NoInference
    /\ alignment = NotCalled
    /\ stereotype = NotCalled
    /\ encode_calls = 0
    /\ pc = "parsed"
    /\ dimensions = Dimensions
    /\ encoded_exemplars = EncodedExemplars
    /\ baseline_responses = <<>>
    /\ consistency = NotCalled
    /\ differentiation = NotCalled
    /\ baseline_distances = [kind |-> "not_called", dict |-> <<>>, error |-> "",
                             profiles |-> <<>>, calls |-> 0]
    /\ prompt = NoPrompt
    /\ NoRun

\* evaluator.calculate_consistency_score(parsed_responses)
Consistency ==
    /\ pc = "parsed"
    /\ LET r == CalculateConsistencyScore(parsed_responses)
       IN  /\ consistency' = r.score
           /\ parsed_responses' = r.parsed_responses
    /\ pc' = "consistency"
    /\ UNCHANGED <<raw, parsed, cultural_contexts, culture, scenario_dimensions, profile,
                   alignment, stereotype, encode_calls, received>>
    /\ UNCHANGED <<selfVars, runVars, responses_by_culture, baseline_responses, differentiation,
                   baseline_distances, prompt>>

\* evaluator.calculate_differentiation_score(responses_by_culture)
Differentiation ==
    /\ pc = "parsed"
    /\ \E encodings \in [1..Len(responses_by_culture) -> BiasEncodeOutcomes] :
          LET r == CalculateDifferentiationScore(responses_by_culture, encodings)
          IN  /\ differentiation' = r.score
              /\ responses_by_culture' = r.responses_by_culture
              /\ encode_calls' = encode_calls + r.calls
    /\ pc' = "differentiated"
    /\ UNCHANGED <<raw, parsed, cultural_contexts, culture, scenario_dimensions, profile,
                   alignment, stereotype, received>>
    /\ UNCHANGED <<selfVars, runVars, parsed_responses, baseline_responses, consistency,
                   baseline_distances, prompt>>

\* the caller has stored the metrics of the call and goes on to the next
\* call with fresh locals
NextRun ==
    /\ pc # "parsed"
    /\ encode_calls < MaxEncodeCalls
    /\ pc' = "parsed"
    /\ culture' = ""
    /\ scenario_dimensions' = <<>>
    /\ profile' = NoInference
    /\ alignment' = NotCalled
    /\ stereotype' = NotCalled
    /\ consistency' = NotCalled
    /\ differentiation' = NotCalled
    /\ UNCHANGED <<raw, parsed, cultural_contexts, encode_calls, received>>
    /\ UNCHANGED <<selfVars, runVars, parsed_responses, responses_by_culture, baseline_responses,
                   baseline_distances, prompt>>

NextCalls ==
    Align \/ Infer \/ Stereotype \/ EvaluateResponse \/ Consistency \/ Differentiation
        \/ NextRun

SpecCalls == InitCalls /\ [][NextCalls]_vars

---------------------------------------------------------------------------
(* prompt_constructor.py *)

\* config.CULTURAL_CONTEXTS: name, location and description of a culture
CultureContext(c) ==
    CASE c = "baseline" -> [name |-> "Baseline (No Cultural Context)",
                            location |-> "No specific location",
                            description |-> "neutral"]
      [] c = "US" -> [name |-> "United States", location |-> "Austin, Texas, USA",
                      description |-> "American"]
      [] c = "Japan" -> [name |-> "Japan", location |-> "Tokyo, Japan",
                         description |-> "Japanese"]
      [] c = "India" -> [name |-> "India", location |-> "New Delhi, India",
                         description |-> "Indian"]
      [] c = "Mexico" -> [name |-> "Mexico", location |-> "Mexico City, Mexico",
                          description |-> "Mexican"]
      [] c = "UAE" -> [name |-> "United Arab Emirates", location |-> "Dubai, UAE",
                       description |-> "Emirati"]

\* the pieces of the persona template of build_system_prompt
PersonaBorn == ", born and raised in"
PersonaEducated == ". You were educated in"

\* BaselinePromptConstructor.build_system_prompt
NeutralSystemPrompt ==
    <<"You are a helpful assistant responding to a personal dilemma.">>

\* Scenario.get_prompt_text
GetPromptText(scenario) ==
    IF scenario.context # <<>>
    THEN scenario.context \o <<NL, NL>> \o scenario.description
    ELSE scenario.description

\* build_user_prompt: the scenario text, then the response instructions
\* with the DECISION: and TOP_VALUES: template
BuildUserPrompt(scenario) ==
    GetPromptText(scenario)
        \o <<NL, NL, "Please respond to this situation by:", NL, NL,
             DecisionMarker, " ", "[", "Choose one", "]", NL, NL,
             ValuesMarker, " ", "[", "List your top 3 values", "]">>

\* build_system_prompt: ValueError for a culture that is not configured
BuildSystemPrompt(cult, age, gender) ==
    IF cult \notin DOMAIN CULTURAL_CONTEXTS
    THEN [kind |-> "raised", error |-> "ValueError", text |-> <<>>]
    ELSE LET ctx == CultureContext(cult)
         IN  [kind |-> "str", error |-> "",
              text |-> <<"You are a", age, "-year-old", gender, "living in", ctx.location,
                         PersonaBorn, ctx.name, PersonaEducated, ctx.name,
                         "and hold the cultural values and perspectives typical of someone from",
                         ctx.description, "culture.">>]

PromptRaised(error) == [kind |-> "raised", error |-> error, system |-> <<>>, user |-> <<>>]

Prompts(system, user) == [kind |-> "prompts", error |-> "", system |-> system, user |-> user]

\* build_complete_prompt without the test for "baseline"
BuildCompletePrompt_NoBaselineBranch(scenario, cult, age, gender) ==
    LET system_prompt == BuildSystemPrompt(cult, age, gender)
    IN  IF system_prompt.kind = "raised" THEN PromptRaised(system_prompt.error)
        ELSE Prompts(system_prompt.text, BuildUserPrompt(scenario))

\* build_complete_prompt
BuildCompletePrompt(scenario, cult, age, gender) ==
    IF cult = "baseline"
    THEN Prompts(NeutralSystemPrompt, BuildUserPrompt(scenario))
    ELSE LET system_prompt == BuildSystemPrompt(cult, age, gender)
         IN  IF system_prompt.kind = "raised" THEN PromptRaised(system_prompt.error)
             ELSE Prompts(system_prompt.text, BuildUserPrompt(scenario))

---------------------------------------------------------------------------
(* The caller builds the prompts of one run after another *)

\* scenarios with and without a context paragraph
PromptScenarios ==
    { [id |-> id, description |-> <<d>>, context |-> c] :
        id \in DOMAIN SCENARIOS, d \in {"What do you do?"}, c \in {<<>>, <<"x">>} }

PromptCultures == DOMAIN CULTURAL_CONTEXTS \cup {"Atlantis"}

Ages == {"28", "35", "60"}

Genders == {"professional", "student"}

InitPrompt ==
    /\ raw = <<>>
    /\ received = 0
    /\ parsed = NoResponse
    /\ cultural_contexts = CULTURAL_CONTEXTS
    /\ culture = ""
    /\ scenario_dimensions = <<>>
    /\ profile = NoInference
    /\ alignment = NotCalled
    /\ stereotype = NotCalled
    /\ encode_calls = 0
    /\ pc = "prompt"
    /\ NoCalls

\* system_prompt, user_prompt =
\*     self.prompt_constructor.build_complete_prompt(scenario, culture)
BuildPrompt ==
    /\ pc \in {"prompt", "prompted"}
    /\ \E scenario \in PromptScenarios, cult \in PromptCultures,
          age \in Ages, gender \in Genders :
          /\ prompt' = BuildCompletePrompt(scenario, cult, age, gender)
          /\ culture' = cult
          /\ scenario_dimensions' = SCENARIOS[scenario.id].cultural_dimensions
    /\ pc' = "prompted"
    /\ UNCHANGED <<raw, parsed, cultural_contexts, profile, alignment, stereotype,
                   encode_calls, received>>
    /\ UNCHANGED <<selfVars, runVars, parsed_responses, responses_by_culture, baseline_responses,
                   consistency, differentiation, baseline_distances>>

NextPrompt == BuildPrompt

SpecPrompt == InitPrompt /\ [][NextPrompt]_vars

---------------------------------------------------------------------------
(* scenarios.py: the scenario table and the lookup by id *)

\* the ids of ALL_SCENARIOS: five scenarios in each of the six families
ScenarioIds ==
    {"IND001", "IND002", "IND003", "IND004", "IND005",
     "PDI001", "PDI002", "PDI003", "PDI004", "PDI005",
     "MAS001", "MAS002", "MAS003", "MAS004", "MAS005",
     "UAI001", "UAI002", "UAI003", "UAI004", "UAI005",
     "LTO001", "LTO002", "LTO003", "LTO004", "LTO005",
     "INDU001", "INDU002", "INDU003", "INDU004", "INDU005"}

\* SCENARIOS_DICT = {s.id: s for s in ALL_SCENARIOS}; every scenario has a
\* description of its own
SCENARIOS_DICT ==
    [id \in ScenarioIds |->
        [id |-> id, description |-> <<"What do you do in", id, "?">>, context |-> <<>>]]

NoScenario == [kind |-> "None", id |-> ""]

\* get_scenario_by_id: SCENARIOS_DICT.get(scenario_id), None for a missing key
GetScenarioById(scenario_id) ==
    IF scenario_id \in DOMAIN SCENARIOS_DICT
    THEN [kind |-> "scenario", id |-> SCENARIOS_DICT[scenario_id].id]
    ELSE NoScenario

\* build_complete_prompt(scenario, culture) on what the lookup returned, with
\* the default age and gender: build_system_prompt raises ValueError first
\* for an unconfigured culture; build_user_prompt calls
\* scenario.get_prompt_text(), an AttributeError when scenario is None
BuildPromptFor(found, cult) ==
    IF found.kind = "None"
    THEN IF cult # "baseline" /\ cult \notin DOMAIN CULTURAL_CONTEXTS
         THEN PromptRaised("ValueError")
         ELSE PromptRaised("AttributeError")
    ELSE BuildCompletePrompt(SCENARIOS_DICT[found.id], cult, "28", "professional")

---------------------------------------------------------------------------
(* The tests and entry points look a scenario up and build its prompt *)

\* the ids looked up: ids taken from ALL_SCENARIOS (main.py:54, demo.py:50,
\* analyze.py:588) and the literal "FAM001" (test.py:54, test.py:78,
\* prompt_constructor.py:211, llm_interface.py:343)
LookedUpIds == ScenarioIds \cup {"FAM001"}

InitLookup ==
    /\ raw = <<>>
    /\ received = 0
    /\ parsed = NoResponse
    /\ cultural_contexts = CULTURAL_CONTEXTS
    /\ culture = ""
    /\ scenario_dimensions = <<>>
    /\ profile = NoInference
    /\ alignment = NotCalled
    /\ stereotype = NotCalled
    /\ encode_calls = 0
    /\ pc = "lookup"
    /\ NoCalls

\* scenario = get_scenario_by_id(scenario_id)
GetScenario ==
    /\ \E scenario_id \in LookedUpIds :
          looked_up' = [requested |-> scenario_id, scenario |-> GetScenarioById(scenario_id)]
    /\ pc' = "looked_up"
    /\ prompt' = NoPrompt
    /\ UNCHANGED <<coreVars, selfVars, parsed_responses, responses_by_culture,
                   baseline_responses, consistency, differentiation, baseline_distances>>
    /\ UNCHANGED <<cache, api_calls, reply, runner, attempts, results, saves,
                   metrics_list, aggregated, rendered>>

\* system_prompt, user_prompt = constructor.build_complete_prompt(scenario, culture)
BuildLookedUp ==
    /\ pc = "looked_up"
    /\ \E cult \in PromptCultures :
          prompt' = BuildPromptFor(looked_up.scenario, cult)
    /\ pc' = "prompted"
    /\ UNCHANGED <<coreVars, selfVars, parsed_responses, responses_by_culture,
                   baseline_responses, consistency, differentiation, baseline_distances>>
    /\ UNCHANGED runVars

NextLookup == GetScenario \/ BuildLookedUp

SpecLookup == InitLookup /\ [][NextLookup]_vars

---------------------------------------------------------------------------
(* The caller receives a decision line, token by token, and parses it *)

MaxDecisionTokens == 3

\* texts that end with the decision marker
DecisionSeeds ==
    { <<DecisionMarker>>, <<DecisionMarker, " ">>, <<"x", NL, DecisionMarker, " ">> }

\* synonyms of the four categories in either case, a word of no category,
\* blanks and the end of the line
DecisionTokens ==
    {"Option A", "Option B", "Freedom", "group", "Compromise", "Neither", "x", " ", NL}

InitDecision ==
    /\ raw \in DecisionSeeds
    /\ received = 0
    /\ parsed = NoResponse
    /\ cultural_contexts = <<>>
    /\ culture = ""
    /\ scenario_dimensions = <<>>
    /\ profile = NoInference
    /\ alignment = NotCalled
    /\ stereotype = NotCalled
    /\ encode_calls = 0
    /\ pc = "receive"
    /\ NoCalls

\* one more token of the decision line arrives
ReceiveDecision ==
    /\ pc = "receive"
    /\ received < MaxDecisionTokens
    /\ \E tok \in DecisionTokens : raw' = Append(raw, tok)
    /\ received' = received + 1
    /\ UNCHANGED <<parsed, cultural_contexts, culture, scenario_dimensions, profile,
                   alignment, stereotype, encode_calls, pc>>
    /\ UNCHANGED <<selfVars, runVars, callVars>>

NextDecision == ReceiveDecision \/ Parse

SpecDecision == InitDecision /\ [][NextDecision]_vars

---------------------------------------------------------------------------
(* The model answers with a list whose items may wrap across lines *)

MaxWrappedItems == 3

\* a response up to the TOP_VALUES: line
ListHeader == <<DecisionMarker, " ", "Option A", NL, NL, ValuesMarker, NL>>

\* the text of one item: on one line, wrapped onto a second line that starts
\* at the margin, wrapped onto an indented second line
WrappedItemTexts ==
    { <<"Family Harmony">>, <<"Family", NL, "Harmony">>,
      <<"Family", NL, " ", " ", "Harmony">>, <<"[", "Duty/Obligation", "]">> }

\* what starts an item: the numeral of a numbered list, the bullet of a
\* bulleted list
ItemMarks == {Numeral, "-"}

ItemCount(text) ==
    Cardinality({k \in (Len(ListHeader) + 1)..Len(text) :
                    text[k] \in ItemMarks /\ text[k - 1] = NL})

InitWrapped ==
    /\ raw = ListHeader
    /\ received = 0
    /\ parsed = NoResponse
    /\ cultural_contexts = <<>>
    /\ culture = ""
    /\ scenario_dimensions = <<>>
    /\ profile = NoInference
    /\ alignment = NotCalled
    /\ stereotype = NotCalled
    /\ encode_calls = 0
    /\ pc = "receive"
    /\ NoCalls

\* one more item "<mark> <item>" of the response arrives; every item of a
\* list starts with the same mark
ReceiveWrappedItem ==
    /\ pc = "receive"
    /\ received < MaxWrappedItems
    /\ \E mark \in ItemMarks, item \in WrappedItemTexts :
          /\ received > 0 => mark = raw[Len(ListHeader) + 1]
          /\ raw' = raw \o <<mark, " ">> \o item \o <<NL>>
    /\ received' = received + 1
    /\ UNCHANGED <<parsed, cultural_contexts, culture, scenario_dimensions, profile,
                   alignment, stereotype, encode_calls, pc>>
    /\ UNCHANGED <<selfVars, runVars, callVars>>

NextWrapped == ReceiveWrappedItem \/ Parse

SpecWrapped == InitWrapped /\ [][NextWrapped]_vars

---------------------------------------------------------------------------
(* The model answers with one line of comma-separated value labels *)

MaxLabels == 4

\* a response up to and including "TOP_VALUES: "
CommaHeader == <<DecisionMarker, " ", "Option A", NL, NL, ValuesMarker, " ">>

\* labels of config.VALUE_OPTIONS; the hyphen of Self-Expression is the
\* character the bullet pattern looks for, hence a token of its own
ValueLabels ==
    { <<"Family Harmony">>, <<"Duty/Obligation">>, <<"Self", "-", "Expression">> }

InitComma ==
    /\ raw = CommaHeader
    /\ received = 0
    /\ parsed = NoResponse
    /\ cultural_contexts = <<>>
    /\ culture = ""
    /\ scenario_dimensions = <<>>
    /\ profile = NoInference
    /\ alignment = NotCalled
    /\ stereotype = NotCalled
    /\ encode_calls = 0
    /\ pc = "receive"
    /\ NoCalls

\* one more label arrives, after ", " when it is not the first
ReceiveLabel ==
    /\ pc = "receive"
    /\ received < MaxLabels
    /\ \E label \in ValueLabels :
          raw' = raw \o (IF received > 0 THEN <<Comma, " ">> ELSE <<>>) \o label
    /\ received' = received + 1
    /\ UNCHANGED <<parsed, cultural_contexts, culture, scenario_dimensions, profile,
                   alignment, stereotype, encode_calls, pc>>
    /\ UNCHANGED <<selfVars, runVars, callVars>>

NextComma == ReceiveLabel \/ Parse

SpecComma == InitComma /\ [][NextComma]_vars

---------------------------------------------------------------------------
(* llm_interface.py: LLMInterface.call_model and the response cache *)

\* config.MODELS; temperature in thousandths
MODELS ==
    [k \in {"gpt-4", "claude-sonnet", "gemini", "deepseek"} |->
        CASE k = "gpt-4" -> [provider |-> "openai", model_name |-> "gpt-4o-mini",
                             max_tokens |-> 500, temperature |-> 700]
          [] k = "claude-sonnet" -> [provider |-> "anthropic",
                                     model_name |-> "claude-3-5-haiku-20241022",
                                     max_tokens |-> 500, temperature |-> 700]
          [] k = "gemini" -> [provider |-> "google", model_name |-> "gemini-2.5-flash-lite",
                              max_tokens |-> 500, temperature |-> 700]
          [] k = "deepseek" -> [provider |-> "deepseek", model_name |-> "deepseek-chat",
                                max_tokens |-> 500, temperature |-> 700]]

\* config.NUM_RUNS_PER_COMBINATION
NUM_RUNS_PER_COMBINATION == 3

\* config.ENABLE_CACHE, copied to LLMInterface.cache_enabled
ENABLE_CACHE == TRUE

\* f"{temperature}"
FormatTemperature(temperature) ==
    CASE temperature = 700 -> "0.7"
      [] temperature = 300 -> "0.3"
      [] OTHER -> "0.0"

\* _get_cache_key: the md5 digest of "model|system_prompt|user_prompt|temperature";
\* the digest is identified with the text it digests
GetCacheKey(model, system_prompt, user_prompt, temperature) ==
    <<model, "|">> \o system_prompt \o <<"|">> \o user_prompt
        \o <<"|", FormatTemperature(temperature)>>

\* _get_cached_response: None when caching is off or no file has the key
NoCached == [isNone |-> TRUE, text |-> <<>>]

GetCachedResponse(files, cache_key) ==
    IF ~ENABLE_CACHE THEN NoCached
    ELSE IF \E f \in files : f.key = cache_key
    THEN [isNone |-> FALSE, text |-> (CHOOSE f \in files : f.key = cache_key).response]
    ELSE NoCached

\* _save_to_cache: the file of the key is written, replacing an older one
SaveToCache(files, cache_key, response) ==
    IF ~ENABLE_CACHE THEN files
    ELSE {f \in files : f.key # cache_key} \cup {[key |-> cache_key, response |-> response]}

\* the four values that make a provider request
Request(model_name, system_prompt, user_prompt, temperature) ==
    [model_name |-> model_name, system_prompt |-> system_prompt,
     user_prompt |-> user_prompt, temperature |-> temperature]

NoRequest == Request("", <<>>, <<>>, 0)

Returned(model_key, request, text) ==
    [kind |-> "returned", error |-> "", text |-> text, model_key |-> model_key,
     request |-> request]

CallRaised(model_key, request, error) ==
    [kind |-> "raised", error |-> error, text |-> <<>>, model_key |-> model_key,
     request |-> request]

\* what the provider API does when invoked: it raises, or it returns a text
ApiRaises == [raises |-> TRUE, text |-> <<>>]
ApiReturns(text) == [raises |-> FALSE, text |-> text]

\* a provider call that never looks into the cache
CallProvider_NoCacheRead(model_key, request, files, api) ==
    LET cache_key == GetCacheKey(request.model_name, request.system_prompt,
                                 request.user_prompt, request.temperature)
    IN  IF api.raises
        THEN [reply |-> CallRaised(model_key, request, "APIError"), files |-> files,
              invoked |-> TRUE]
        ELSE [reply |-> Returned(model_key, request, api.text),
              files |-> SaveToCache(files, cache_key, api.text), invoked |-> TRUE]

\* call_openai / call_anthropic / call_google: the cached response when
\* there is a non-empty one, else the API is invoked; its result is saved
\* and returned, its exception is logged and raised again
CallProvider(model_key, request, files, api) ==
    LET cache_key == GetCacheKey(request.model_name, request.system_prompt,
                                 request.user_prompt, request.temperature)
        cached == GetCachedResponse(files, cache_key)
    IN  IF ~cached.isNone /\ cached.text # <<>>
        THEN [reply |-> Returned(model_key, request, cached.text), files |-> files,
              invoked |-> FALSE]
        ELSE IF api.raises
        THEN [reply |-> CallRaised(model_key, request, "APIError"), files |-> files,
              invoked |-> TRUE]
        ELSE [reply |-> Returned(model_key, request, api.text),
              files |-> SaveToCache(files, cache_key, api.text), invoked |-> TRUE]

Providers == {"openai", "anthropic", "google"}

\* call_model
CallModel(model_key, system_prompt, user_prompt, files, api) ==
    IF model_key \notin DOMAIN MODELS
    THEN [reply |-> CallRaised(model_key, NoRequest, "ValueError: Unknown model key"),
          files |-> files, invoked |-> FALSE]
    ELSE LET model_config == MODELS[model_key]
             request == Request(model_config.model_name, system_prompt, user_prompt,
                                model_config.temperature)
         IN  IF model_config.provider \in Providers
             THEN CallProvider(model_key, request, files, api)
             ELSE [reply |-> CallRaised(model_key, request, "ValueError: Unknown provider"),
                   files |-> files, invoked |-> FALSE]

---------------------------------------------------------------------------
(* A caller queries the models through one LLMInterface *)

MaxApiCalls == 2

\* the model keys a caller passes: the configured ones and one that is not
ModelKeys == DOMAIN MODELS \cup {"llama"}

\* the prompts of one scenario for the baseline
QueryPrompts ==
    { BuildPromptFor(GetScenarioById(id), "baseline") : id \in {"IND001"} }

\* what the API may do: raise, return an empty text, return one of two texts
ApiOutcomes ==
    { ApiRaises, ApiReturns(<<>>), ApiReturns(TestResponse),
      ApiReturns(<<DecisionMarker, " ", "Option A">>) }

InitQuery ==
    /\ raw = <<>>
    /\ received = 0
    /\ parsed = NoResponse
    /\ cultural_contexts = CULTURAL_CONTEXTS
    /\ culture = ""
    /\ scenario_dimensions = <<>>
    /\ profile = NoInference
    /\ alignment = NotCalled
    /\ stereotype = NotCalled
    /\ encode_calls = 0
    /\ pc = [at |-> "query", run_num |-> 0]
    /\ NoCalls

\* for run_num in range(self.num_runs): ... response_text =
\* self.llm_interface.call_model(model_key, system_prompt, user_prompt);
\* the run number is not handed to call_model
Query ==
    /\ \E model_key \in ModelKeys, prompts \in QueryPrompts, api \in ApiOutcomes,
          run_num \in 0..(NUM_RUNS_PER_COMBINATION - 1) :
          LET r == CallModel(model_key, prompts.system, prompts.user, cache, api)
          IN  /\ pc' = [at |-> "queried", run_num |-> run_num]
              /\ reply' = r.reply
              /\ cache' = r.files
              /\ api_calls' = IF r.invoked
                              THEN Append(api_calls, [request |-> r.reply.request,
                                                      outcome |-> api])
                              ELSE api_calls
              /\ Len(api_calls') <= MaxApiCalls
    /\ UNCHANGED <<coreVars, selfVars, callVars>>
    /\ UNCHANGED <<looked_up, runner, attempts, results, saves,
                   metrics_list, aggregated, rendered>>

NextQuery == Query

SpecQuery == InitQuery /\ [][NextQuery]_vars

---------------------------------------------------------------------------
(* main.py: ExperimentRunner.run_experiment *)

\* the outcome of one _run_single_experiment call: a result record, or the
\* exception that leaves it; files and invoked are the cache and the API use
\* of its call_model
SingleRaised(error, reply_, files, invoked, api) ==
    [raised |-> TRUE, error |-> error, result |-> <<>>, reply |-> reply_,
     files |-> files, invoked |-> invoked, api |-> api]

\* scenario.cultural_dimensions
CulturalDimensionsOf(scenario) ==
    IF scenario.kind = "scenario" /\ scenario.id \in DOMAIN SCENARIOS
    THEN SCENARIOS[scenario.id].cultural_dimensions
    ELSE <<>>

\* _run_single_experiment from the values of its statements: prompts of
\* build_complete_prompt, call of call_model, parsed_response of
\* parse_response, scored of the alignment scoring in evaluate_response.
\* The first statement that raises ends it; the statements after it have
\* not run. Otherwise the result is compiled.
RunSingle(scenario, model_key, cult, run_num, last_reply, files, api, prompts, call, parsed_response, scored) ==
    IF prompts.kind = "raised"
    THEN SingleRaised(prompts.error, last_reply, files, FALSE, api)
    ELSE IF call.reply.kind = "raised"
    THEN SingleRaised(call.reply.error, call.reply, call.files, call.invoked, api)
    ELSE IF scored.result.kind = "raised"
    THEN SingleRaised("encode", call.reply, call.files, call.invoked, api)
    ELSE [raised |-> FALSE, error |-> "",
          result |-> [scenario_id |-> scenario.id, model |-> model_key,
                      culture |-> cult, run_num |-> run_num,
                      raw_response |-> call.reply.text,
                      decision |-> parsed_response.decision,
                      top_values |-> parsed_response.top_values,
                      parse_success |-> parsed_response.parse_success,
                      cultural_alignment |-> scored.result,
                      stereotype |-> CalculateStereotypeScore(parsed_response)],
          reply |-> call.reply, files |-> call.files,
          invoked |-> call.invoked, api |-> api]

\* the loop variables: indexes into self.scenarios, self.models,
\* self.cultures, and run_num
Position(at, s, m, c, r) == [at |-> at, s |-> s, m |-> m, c |-> c, r |-> r]

\* the four nested for loops: the innermost advances first
NextPosition(pos, rn) ==
    IF pos.r + 1 < rn.num_runs THEN Position("loop", pos.s, pos.m, pos.c, pos.r + 1)
    ELSE IF pos.c < Len(rn.cultures) THEN Position("loop", pos.s, pos.m, pos.c + 1, 0)
    ELSE IF pos.m < Len(rn.models) THEN Position("loop", pos.s, pos.m + 1, 1, 0)
    ELSE IF pos.s < Len(rn.scenarios) THEN Position("loop", pos.s + 1, 1, 1, 0)
    ELSE Position("done", pos.s, pos.m, pos.c, pos.r)

\* no try/except around the combination: an exception ends the loops
AfterAttempt_StopOnError(pos, rn, raised) ==
    IF raised THEN Position("done", pos.s, pos.m, pos.c, pos.r)
    ELSE NextPosition(pos, rn)

\* try: ... except Exception: logger.error(...); then pbar.update(1) and the
\* next iteration, whether the combination raised or not
AfterAttempt(pos, rn, raised) == NextPosition(pos, rn)

---------------------------------------------------------------------------
(* An experiment: the runner attempts its combinations, then saves *)

MaxRuns == 2

\* ExperimentRunner(scenarios, models, cultures, num_runs, include_baseline)
RunnerConfigs ==
    { [scenarios |-> s, models |-> m, cultures |-> c, num_runs |-> n] :
        s \in { <<"IND001">>, <<"FAM001", "IND001">> },
        m \in { <<"gpt-4">>, <<"deepseek", "gpt-4">> },
        c \in { <<"US">>, <<"baseline", "US">> },
        n \in 1..MaxRuns }

\* what the API and the embedding function may do during one combination
RunApiOutcomes == { ApiRaises, ApiReturns(TestResponse) }

RunEncodeOutcomes ==
    { [raises |-> TRUE, sims |-> [d \in DimensionSet |-> [high |-> 0, low |-> 0]]],
      Embedding([high |-> 1000, low |-> 500], [high |-> 1000, low |-> 500]) }

InitExperiment ==
    /\ raw = <<>>
    /\ received = 0
    /\ parsed = NoResponse
    /\ cultural_contexts = CULTURAL_CONTEXTS
    /\ culture = ""
    /\ scenario_dimensions = <<>>
    /\ profile = NoInference
    /\ alignment = NotCalled
    /\ stereotype = NotCalled
    /\ encode_calls = 0
    /\ dimensions = Dimensions
    /\ encoded_exemplars = EncodedExemplars
    /\ parsed_responses = <<>>
    /\ responses_by_culture = <<>>
    /\ baseline_responses = <<>>
    /\ consistency = NotCalled
    /\ differentiation = NotCalled
    /\ baseline_distances = [kind |-> "not_called", dict |-> <<>>, error |-> "",
                             profiles |-> <<>>, calls |-> 0]
    /\ prompt = NoPrompt
    /\ looked_up = NotLooked
    /\ cache = {}
    /\ api_calls = <<>>
    /\ reply = NoReply
    /\ runner \in RunnerConfigs
    /\ attempts = <<>>
    /\ results = <<>>
    /\ saves = 0
    /\ metrics_list = <<>>
    /\ aggregated = NotAggregated
    /\ rendered = NotRendered
    /\ pc = Position("loop", 1, 1, 1, 0)

\* one iteration of the innermost loop of run_experiment: the scenario of
\* the outer loop is looked up, the statements of _run_single_experiment
\* run inside try/except, the result is appended when none of them raised
RunSingleExperiment ==
    /\ pc.at = "loop"
    /\ \E api \in RunApiOutcomes, encoded \in RunEncodeOutcomes :
          LET scenario_id == runner.scenarios[pc.s]
              model_key == runner.models[pc.m]
              cult == runner.cultures[pc.c]
              scenario == GetScenarioById(scenario_id)
          IN  \E prompts \in {BuildPromptFor(scenario, cult)} :
              \E call \in {CallModel(model_key, prompts.system, prompts.user, cache, api)} :
              \E parsed_response \in {ParseResponse(call.reply.text)} :
              \E scored \in {CalculateCulturalAlignment(
                                 parsed_response, cult, CulturalDimensionsOf(scenario),
                                 CULTURAL_CONTEXTS, encoded)} :
              \E single \in {RunSingle(scenario, model_key, cult, pc.r, reply, cache, api,
                                       prompts, call, parsed_response, scored)} :
              /\ looked_up' = [requested |-> scenario_id, scenario |-> scenario]
              /\ attempts' = Append(attempts,
                                    [scenario_id |-> scenario_id, model |-> model_key,
                                     culture |-> cult, run_num |-> pc.r,
                                     raised |-> single.raised])
              /\ results' = IF single.raised THEN results
                            ELSE Append(results, single.result)
              /\ reply' = single.reply
              /\ cache' = single.files
              /\ api_calls' = IF single.invoked
                              THEN Append(api_calls, [request |-> single.reply.request,
                                                      outcome |-> single.api])
                              ELSE api_calls
              /\ pc' = AfterAttempt(pc, runner, single.raised)
    /\ UNCHANGED <<coreVars, selfVars, callVars>>
    /\ UNCHANGED <<runner, saves, metrics_list, aggregated, rendered>>

\* self.save_results() after the loops
SaveResults ==
    /\ pc.at = "done"
    /\ saves' = saves + 1
    /\ pc' = Position("saved", pc.s, pc.m, pc.c, pc.r)
    /\ UNCHANGED <<coreVars, selfVars, callVars>>
    /\ UNCHANGED <<looked_up, cache, api_calls, reply, runner, attempts, results,
                   metrics_list, aggregated, rendered>>

NextExperiment == RunSingleExperiment \/ SaveResults

SpecExperiment == InitExperiment /\ [][NextExperiment]_vars

\* the control flow of run_experiment alone: the loops move to the next
\* combination after an iteration, and save_results follows the loops
ControlAdvances ==
    \/ /\ pc.at = "loop"
       /\ \E raised \in BOOLEAN : pc' = AfterAttempt(pc, runner, raised)
    \/ /\ pc.at = "done"
       /\ pc' = Position("saved", pc.s, pc.m, pc.c, pc.r)

\* run_experiment is sequential code: each iteration ends (with a result or
\* an exception) and the next statement runs. Every step of NextExperiment
\* changes pc, so the fairness is stated on the position.
SpecExperimentFair == SpecExperiment /\ WF_pc(ControlAdvances)

---------------------------------------------------------------------------
(* evaluator.py and demo.py: the consumers of EvaluationMetrics *)

\* evaluate_response called without similar_responses, cross-cultural
\* responses or judge scores: consistency 10.0, differentiation 0.0
EvaluationMetrics(alignment_score, stereotype_score) ==
    [cultural_alignment_score |-> alignment_score,
     consistency_score |-> Float(10000),
     cultural_differentiation_score |-> Float(0),
     stereotype_score |-> stereotype_score]

IsNotNone(score) == score.kind # "None"

\* [m.<field> for m in metrics_list]
FieldOf(metrics_list_, field) ==
    [i \in 1..Len(metrics_list_) |-> metrics_list_[i][field]]

ValuesOf(scores) == [i \in 1..Len(scores) |-> scores[i].val]

\* np.mean of a non-empty list of floats
NpMean(scores) == Float(Sum(ValuesOf(scores)) \div Len(scores))

\* np.std: the root of the mean squared deviation from the mean
NpStd(scores) ==
    LET mean == Sum(ValuesOf(scores)) \div Len(scores)
        squares == [i \in 1..Len(scores) |->
                       (scores[i].val - mean) * (scores[i].val - mean)]
    IN  Float(Sqrt(Sum(squares) \div Len(scores)))

\* aggregate_metrics: {} for no metrics; the alignment scores that are not
\* None give the mean and the deviation, None when there is none
AggregateMetrics(metrics_list_) ==
    IF metrics_list_ = <<>>
    THEN [NotAggregated EXCEPT !.kind = "empty"]
    ELSE LET alignment_scores ==
                 SelectSeq(FieldOf(metrics_list_, "cultural_alignment_score"), IsNotNone)
         IN  [kind |-> "dict",
              mean_alignment |-> IF alignment_scores # <<>>
                                 THEN NpMean(alignment_scores) ELSE None,
              std_alignment |-> IF alignment_scores # <<>>
                                THEN NpStd(alignment_scores) ELSE None,
              mean_consistency |-> NpMean(FieldOf(metrics_list_, "consistency_score")),
              mean_differentiation |->
                  NpMean(FieldOf(metrics_list_, "cultural_differentiation_score")),
              mean_stereotype |-> NpMean(FieldOf(metrics_list_, "stereotype_score"))]

\* f"{score:.2f}": a float is rounded to hundredths; None has no such
\* format and the formatting raises TypeError
FormatTwoDecimals(score) ==
    IF score.kind = "float" THEN [kind |-> "str", val |-> (score.val + 5) \div 10]
    ELSE Raised

\* one row of metrics_data
MetricsRow(result) ==
    [Model |-> result.model, Culture |-> result.culture,
     CulturalAlignment |-> FormatTwoDecimals(result.metrics.cultural_alignment_score),
     Consistency |-> FormatTwoDecimals(result.metrics.consistency_score),
     Differentiation |-> FormatTwoDecimals(result.metrics.cultural_differentiation_score),
     StereotypeScore |-> FormatTwoDecimals(result.metrics.stereotype_score)]

RowRaised(row) ==
    \/ row.CulturalAlignment.kind = "raised"
    \/ row.Consistency.kind = "raised"
    \/ row.Differentiation.kind = "raised"
    \/ row.StereotypeScore.kind = "raised"

\* sum(r['metrics'].<field> for r in model_results) / len(model_results):
\* adding None to a number raises TypeError
SumOverLen(scores) ==
    IF \E i \in 1..Len(scores) : scores[i].kind # "float" THEN Raised
    ELSE Float(Sum(ValuesOf(scores)) \div Len(scores))

OfModel(results_, model) ==
    LET Is(r) == r.model = model
    IN  SelectSeq(results_, Is)

\* the values of one trace of the radar chart
RadarValues(model_results) ==
    LET metrics_ == [i \in 1..Len(model_results) |-> model_results[i].metrics]
    IN  [f \in {"cultural_alignment_score", "consistency_score",
                "cultural_differentiation_score", "stereotype_score"} |->
            SumOverLen(FieldOf(metrics_, f))]

\* display_metrics_tab: the table of formatted rows, then one radar trace per
\* model; the first statement that raises ends it
DisplayMetricsTab(results_) ==
    LET rows == [i \in 1..Len(results_) |-> MetricsRow(results_[i])]
        models == {results_[i].model : i \in 1..Len(results_)}
        chart == [m \in models |-> RadarValues(OfModel(results_, m))]
    IN  IF \E i \in 1..Len(rows) : RowRaised(rows[i])
        THEN [kind |-> "raised", error |-> "TypeError", rows |-> <<>>, chart |-> <<>>]
        ELSE IF \E m \in models : \E f \in DOMAIN chart[m] : chart[m][f].kind = "raised"
        THEN [kind |-> "raised", error |-> "TypeError", rows |-> rows, chart |-> <<>>]
        ELSE [kind |-> "rendered", error |-> "", rows |-> rows, chart |-> chart]

---------------------------------------------------------------------------
(* The demo: responses are generated per model and culture, then shown *)

\* the sidebar: a scenario of ALL_SCENARIOS, the selected models and the
\* selected cultures (by default gpt-4 and baseline, US, Japan)
DemoSelections ==
    { [scenarios |-> <<"IND001">>, models |-> m, cultures |-> c, num_runs |-> 1] :
        m \in { <<"gpt-4">>, <<"gpt-4", "deepseek">> },
        c \in { <<"baseline", "US", "Japan">>, <<"US", "Japan">>, <<"baseline">> } }

InitDemo ==
    /\ raw = <<>>
    /\ received = 0
    /\ parsed = NoResponse
    /\ cultural_contexts = CULTURAL_CONTEXTS
    /\ culture = ""
    /\ scenario_dimensions = <<>>
    /\ profile = NoInference
    /\ alignment = NotCalled
    /\ stereotype = NotCalled
    /\ encode_calls = 0
    /\ dimensions = Dimensions
    /\ encoded_exemplars = EncodedExemplars
    /\ parsed_responses = <<>>
    /\ responses_by_culture = <<>>
    /\ baseline_responses = <<>>
    /\ consistency = NotCalled
    /\ differentiation = NotCalled
    /\ baseline_distances = [kind |-> "not_called", dict |-> <<>>, error |-> "",
                             profiles |-> <<>>, calls |-> 0]
    /\ prompt = NoPrompt
    /\ looked_up = NotLooked
    /\ cache = {}
    /\ api_calls = <<>>
    /\ reply = NoReply
    /\ runner \in DemoSelections
    /\ attempts = <<>>
    /\ results = <<>>
    /\ saves = 0
    /\ metrics_list = <<>>
    /\ aggregated = NotAggregated
    /\ rendered = NotRendered
    /\ pc = Position("loop", 1, 1, 1, 0)

\* one iteration of the loops of generate_and_display_responses (models
\* outside, cultures inside, one scenario and one run): prompt, model call,
\* parsing and evaluation inside try/except, the same four statements as
\* _run_single_experiment; the result with its metrics is appended when none
\* of them raised
GenerateResponse ==
    /\ pc.at = "loop"
    /\ \E api \in RunApiOutcomes, encoded \in RunEncodeOutcomes :
          LET model_key == runner.models[pc.m]
              cult == runner.cultures[pc.c]
              scenario == GetScenarioById(runner.scenarios[pc.s])
          IN  \E prompts \in {BuildPromptFor(scenario, cult)} :
              \E call \in {CallModel(model_key, prompts.system, prompts.user, cache, api)} :
              \E parsed_response \in {ParseResponse(call.reply.text)} :
              \E scored \in {CalculateCulturalAlignment(
                                 parsed_response, cult, CulturalDimensionsOf(scenario),
                                 CULTURAL_CONTEXTS, encoded)} :
              \E single \in {RunSingle(scenario, model_key, cult, 0, reply, cache, api,
                                       prompts, call, parsed_response, scored)} :
              /\ results' = IF single.raised THEN results
                            ELSE Append(results,
                                        [model |-> model_key, culture |-> cult,
                                         response |-> single.result.raw_response,
                                         metrics |-> EvaluationMetrics(
                                                         single.result.cultural_alignment,
                                                         single.result.stereotype)])
              /\ reply' = single.reply
              /\ cache' = single.files
              /\ api_calls' = IF single.invoked
                              THEN Append(api_calls, [request |-> single.reply.request,
                                                      outcome |-> single.api])
                              ELSE api_calls
              /\ pc' = NextPosition(pc, runner)
    /\ UNCHANGED <<coreVars, selfVars, callVars>>
    /\ UNCHANGED <<looked_up, runner, attempts, saves, metrics_list, aggregated, rendered>>

\* display_results after the loops: the metrics tab is rendered
DisplayResults ==
    /\ pc.at = "done"
    /\ rendered' = DisplayMetricsTab(results)
    /\ pc' = Position("displayed", pc.s, pc.m, pc.c, pc.r)
    /\ UNCHANGED <<coreVars, selfVars, callVars>>
    /\ UNCHANGED <<looked_up, cache, api_calls, reply, runner, attempts, results, saves,
                   metrics_list, aggregated>>

\* aggregate_metrics called with the metrics of the results so far
Aggregate ==
    /\ metrics_list' = [i \in 1..Len(results) |-> results[i].metrics]
    /\ aggregated' = AggregateMetrics(metrics_list')
    /\ UNCHANGED <<coreVars, selfVars, callVars, pc>>
    /\ UNCHANGED <<looked_up, cache, api_calls, reply, runner, attempts, results, saves,
                   rendered>>

NextDemo == GenerateResponse \/ DisplayResults \/ Aggregate

SpecDemo == InitDemo /\ [][NextDemo]_vars

---------------------------------------------------------------------------
(* Claims *)

HasMarker(text, marker) == \E i \in 1..Len(text) : text[i] = marker

\* non-blank text follows some occurrence of the marker
TextFollows(text, marker) ==
    \E i \in 1..Len(text) :
        text[i] = marker /\ \E k \in (i + 1)..Len(text) : ~IsWs(text[k])

AllNullCulture(c) ==
    c \in DOMAIN cultural_contexts
    /\ \A d \in DOMAIN cultural_contexts[c] : cultural_contexts[c][d].isNone

\* C1: calculate_cultural_alignment returns exactly 0.0 for every response
\* whose parse_success is false, whatever the culture (baseline, unknown,
\* all-null profile) and the relevant dimensions.
C1_FailedParseScoresZero ==
    (pc = "aligned" /\ ~parsed.parse_success) => alignment = Float(0)

C1_Witness ==
    /\ pc = "aligned" /\ ~parsed.parse_success
    /\ culture = "baseline" /\ alignment = Float(0)

\* C2 as claimed: calculate_cultural_alignment returns None whenever the
\* culture is "baseline", whether or not the extraction succeeded.
C2_BaselineAlwaysNone ==
    (pc = "aligned" /\ culture = "baseline") => alignment = None

\* C2 amended: calculate_cultural_alignment returns None whenever the culture
\* is "baseline" and the response's parse_success is true, for any relevant
\* dimensions.
C2_BaselineNoneWhenParsed ==
    (pc = "aligned" /\ culture = "baseline" /\ parsed.parse_success) => alignment = None

C2_Witness ==
    /\ pc = "aligned" /\ culture = "baseline" /\ parsed.parse_success
    /\ scenario_dimensions # <<>> /\ alignment = None

\* C3: parse_success is true if and only if decision is not null and
\* top_values is non-empty.
C3_SuccessIffDecisionAndValues ==
    pc = "parsed" =>
        (parsed.parse_success <=> (~parsed.decision.isNone /\ parsed.top_values # <<>>))

\* C4: a text that lacks the DECISION marker or the TOP_VALUES marker parses
\* with parse_success false and a non-empty parse_errors; and for every text
\* parse_errors is empty if and only if parse_success is true.
C4_MissingMarkerFails ==
    pc = "parsed" =>
        /\ (~HasMarker(raw, DecisionMarker) \/ ~HasMarker(raw, ValuesMarker))
              => (~parsed.parse_success /\ parsed.parse_errors # <<>>)
        /\ (parsed.parse_errors = <<>>) <=> parsed.parse_success

C4_Witness ==
    /\ pc = "parsed" /\ ~HasMarker(raw, DecisionMarker) /\ HasMarker(raw, ValuesMarker)
    /\ parsed.top_values # <<>> /\ parsed.parse_errors = <<DecisionError>>

\* C5: a text with a decision marker followed by non-blank text and a values
\* marker followed by non-blank text (items in numbered, bulleted,
\* comma-separated or one-per-line form) parses with parse_success true.
C5_BothSectionsSucceed ==
    (pc = "parsed" /\ TextFollows(raw, DecisionMarker) /\ TextFollows(raw, ValuesMarker))
        => parsed.parse_success

C5_Witness ==
    /\ pc = "parsed" /\ TextFollows(raw, DecisionMarker) /\ TextFollows(raw, ValuesMarker)
    /\ parsed.parse_success /\ Len(parsed.top_values) = 2
    /\ HasMarker(raw, Comma) /\ ~HasMarker(raw, Numeral)

\* C6: parse_response followed by the scoring of evaluate_response ends with
\* a float or None for the alignment and a float for the stereotype score,
\* and raises exactly when semantic_model.encode raised.
C6_ChainRaisesOnlyWithEncode ==
    /\ pc = "raised" <=> profile.encode = "raised"
    /\ pc = "raised" => alignment = Raised
    /\ pc = "evaluated" =>
          /\ alignment.kind \in {"float", "None"}
          /\ stereotype.kind = "float"

C6_Witness ==
    /\ pc = "raised" /\ profile.encode = "raised" /\ encode_calls = 1
    /\ parsed.parse_success

\* C7: for a response whose explanation is blank, whose decision is null or
\* blank and whose values are all blank, _infer_cultural_profile returns 0.0
\* on all six dimensions and never calls the embedding function.
BlankResponse(r) ==
    /\ Strip(r.explanation) = <<>>
    /\ r.decision.isNone \/ Strip(r.decision.text) = <<>>
    /\ \A k \in 1..Len(r.top_values) : Strip(r.top_values[k]) = <<>>

C7_BlankResponseNeutralNoEncode ==
    (pc = "inferred" /\ BlankResponse(parsed)) =>
        /\ profile.kind = "dict"
        /\ profile.dict = NeutralProfile
        /\ encode_calls = 0

\* C8: every profile _infer_cultural_profile returns is defined on exactly
\* the six configured dimensions, with every value in [-2.0, 2.0].
C8_ProfileInRange ==
    profile.kind = "dict" =>
        /\ DOMAIN profile.dict = DimensionSet
        /\ \A d \in DOMAIN profile.dict :
              profile.dict[d] >= 0 - 2000 /\ profile.dict[d] <= 2000

C8_Witness ==
    /\ pc = "inferred" /\ profile.kind = "dict" /\ profile.encode = "returned"
    /\ profile.dict["individualism"] = 2000
    /\ profile.dict["indulgence"] = 2000

\* C9: for a successfully parsed response and a culture that is neither
\* "baseline" nor configured, calculate_cultural_alignment returns exactly
\* 0.0, does not raise and does not call the embedding function.
C9_UnknownCultureScoresZero ==
    (pc = "aligned" /\ parsed.parse_success /\ culture # "baseline"
        /\ culture \notin DOMAIN cultural_contexts)
        => (alignment = Float(0) /\ encode_calls = 0 /\ profile = NoInference)

C9_Witness ==
    /\ pc = "aligned" /\ parsed.parse_success /\ culture = "Atlantis"
    /\ alignment = Float(0) /\ encode_calls = 0

\* C10: calculate_cultural_alignment returns None exactly when the response
\* was parsed successfully and the culture is "baseline" or a configured
\* culture whose profile is null on every dimension; otherwise it returns a
\* number (unless the embedding function raised).
C10_NoneExactlyWithoutProfile ==
    pc = "aligned" =>
        /\ alignment = None <=>
              (parsed.parse_success /\ (culture = "baseline" \/ AllNullCulture(culture)))
        /\ alignment # None =>
              (alignment.kind = "float" \/ profile.encode = "raised")

C10_Witness ==
    /\ pc = "aligned" /\ parsed.parse_success /\ culture = "Unscored"
    /\ AllNullCulture(culture) /\ alignment = None


\* a dimension of the list that the culture's profile scores (not null)
UsableDimension(dims, cult) ==
    \E k \in 1..Len(dims) :
        /\ dims[k] \in DOMAIN cultural_contexts[cult]
        /\ ~cultural_contexts[cult][dims[k]].isNone

\* a configured culture whose profile is not null on every dimension
ScoredCulture(cult) ==
    cult \in DOMAIN cultural_contexts /\ ~AllNullCulture(cult)

\* C11: for a successfully parsed response and a configured culture whose
\* profile is not all-null, when the relevant dimensions are empty, name no
\* configured dimension or name only dimensions whose reference value is
\* null, calculate_cultural_alignment returns exactly 5.0 (the embedding
\* function having returned).
C11_NoUsablePairScoresFive ==
    (pc = "aligned" /\ parsed.parse_success /\ ScoredCulture(culture)
        /\ ~UsableDimension(scenario_dimensions, culture) /\ profile.encode # "raised")
        => alignment = Float(5000)

C11_Witness ==
    /\ pc = "aligned" /\ parsed.parse_success /\ culture = "Partial"
    /\ ScoredCulture(culture)
    /\ scenario_dimensions = <<"power_distance", "bogus">>
    /\ profile.encode = "returned" /\ alignment = Float(5000)


\* the squared difference on dimension d between the culture's reference
\* value and an inferred profile
SquaredDifference(cult, d, response_profile) ==
    (cultural_contexts[cult][d].val - response_profile[d])
        * (cultural_contexts[cult][d].val - response_profile[d])

\* the dimensions calculate_cultural_alignment compares for the culture
ComparedDimensions(dims, cult) ==
    {d \in DimensionSet :
        /\ \E k \in 1..Len(dims) : dims[k] = d
        /\ ~cultural_contexts[cult][d].isNone}

\* C12: with the reference profile and the relevant dimensions fixed, when
\* the inferred profile changes so that the squared difference on every
\* compared dimension does not increase, the result of
\* calculate_cultural_alignment does not decrease.
C12_CloserProfileScoresNoLower ==
    [][(/\ pc = "aligned" /\ pc' = "aligned"
        /\ parsed.parse_success /\ ScoredCulture(culture)
        /\ profile.kind = "dict" /\ profile'.kind = "dict"
        /\ \A d \in ComparedDimensions(scenario_dimensions, culture) :
              SquaredDifference(culture, d, profile'.dict)
                  <= SquaredDifference(culture, d, profile.dict))
       => (/\ alignment.kind = "float" /\ alignment'.kind = "float"
           /\ alignment'.val >= alignment.val)]_vars

\* a second call whose profile is strictly closer on the one compared
\* dimension has scored strictly higher than 0.0
C12_Witness ==
    /\ pc = "aligned" /\ encode_calls = MaxEncodeCalls
    /\ parsed.parse_success /\ culture = "US"
    /\ scenario_dimensions = <<"individualism", "power_distance">>
    /\ profile.kind = "dict" /\ profile.dict["individualism"] = 2000
    /\ profile.dict["power_distance"] = 0
    /\ alignment.kind = "float" /\ alignment.val > 5000


Successful(item) == item.response.parse_success

\* the caller handed over ParsedResponse objects / (ParsedResponse,
\* scenario_id) tuples
AllParsedResponses ==
    \A k \in 1..Len(baseline_responses) : ~baseline_responses[k].paired

AllPairs ==
    \A k \in 1..Len(baseline_responses) : baseline_responses[k].paired

\* one squared difference per successfully parsed baseline response, on the
\* primary dimension of the scenario that response answers
PrimarySquares(cult) ==
    LET answered == SelectSeq(baseline_responses, Successful)
    IN  [k \in 1..Len(answered) |->
            LET d == SCENARIOS[answered[k].scenario_id].primary_decision_dimension
            IN  (cultural_contexts[cult][d].val - baseline_distances.profiles[k][d])
                * (cultural_contexts[cult][d].val - baseline_distances.profiles[k][d])]

FullyScored(cult) ==
    \A d \in DOMAIN cultural_contexts[cult] : ~cultural_contexts[cult][d].isNone

\* C13 as claimed: the distance calculate_baseline_bias reports for a culture
\* is the square root of the mean of the squared differences collected one
\* per response on the primary dimension of that response's scenario.
C13_PrimaryDimensionOnly ==
    (pc = "biased" /\ baseline_distances.kind = "dict") =>
        \A c \in DOMAIN baseline_distances.dict :
            FullyScored(c) =>
                baseline_distances.dict[c] = RootMeanSquare(PrimarySquares(c))

\* C14 as claimed: given a non-empty sequence of (ParsedResponse,
\* scenario_id) pairs, calculate_baseline_bias returns a culture-to-distance
\* mapping and does not raise (the embedding function having returned).
C14_PairsAccepted ==
    (pc = "biased" /\ baseline_responses # <<>> /\ AllPairs
        /\ baseline_distances.error # "encode")
        => baseline_distances.kind = "dict"

Occurrences(text) ==
    Sum([k \in 1..Len(text) |-> Cardinality(IndicatorsIn(Lower(text[k])))])

\* C16 as claimed: calculate_stereotype_score counts every occurrence of an
\* indicator phrase, takes density = occurrences / word count x 100 and
\* returns max(0, 10 - density * 20); so a text in which the occurrences make
\* up at least half of the words scores exactly 0.0, however long it is.
C16_EveryOccurrenceCounts ==
    (pc = "scored" /\ WordCount(raw) > 0) =>
        LET score == 10000 - (Occurrences(raw) * 2000000) \div WordCount(raw)
        IN  /\ stereotype = Float(IF score < 0 THEN 0 ELSE score)
            /\ 2 * Occurrences(raw) >= WordCount(raw) => stereotype = Float(0)

\* C17: calculate_stereotype_score returns a value in [0, 10]; exactly 10.0
\* when the raw text is empty or whitespace only, and when it has at least
\* one word and contains no indicator phrase.
C17_StereotypeScoreInRange ==
    pc = "scored" =>
        /\ stereotype.kind = "float"
        /\ stereotype.val >= 0 /\ stereotype.val <= 10000
        /\ Strip(raw) = <<>> => stereotype = Float(10000)
        /\ (WordCount(raw) > 0 /\ Occurrences(raw) = 0) => stereotype = Float(10000)

\* a long text with one indicator phrase scores strictly between 0 and 10
C17_Witness ==
    /\ pc = "scored" /\ WordCount(raw) > 200 /\ Occurrences(raw) > 0
    /\ stereotype.kind = "float" /\ stereotype.val > 0 /\ stereotype.val < 10000


\* the lines of the values section, each a numbered item
ItemLines(text) ==
    LET at == Min({i \in 1..Len(text) : text[i] = ValuesMarker})
    IN  NonBlank(Split(SubSeq(text, at + 1, Len(text)), NL))

\* the text of an item line after its number, without surrounding whitespace
ItemText(line) == Strip(Tail(Strip(line)))

\* an item without the pair of brackets that encloses it, if one does
Unenclosed(t) ==
    IF Len(t) >= 2 /\ t[1] = "[" /\ t[Len(t)] = "]"
    THEN Strip(SubSeq(t, 2, Len(t) - 1))
    ELSE t

\* an item without any bracket character at its start or end
Unbracketed(t) == Strip(StripSet(t, Brackets))

C19_ScoringWritesNothing ==
    [][/\ encoded_exemplars' = encoded_exemplars
       /\ cultural_contexts' = cultural_contexts
       /\ dimensions' = dimensions
       /\ parsed' = parsed
       /\ parsed_responses' = parsed_responses
       /\ responses_by_culture' = responses_by_culture]_vars

\* a consistency score of three responses, computed after earlier calls
\* that used the embedding function
C19_Witness ==
    /\ pc = "consistency" /\ encode_calls >= 1
    /\ Len(parsed_responses) = 3 /\ AllValues(parsed_responses) # <<>>
    /\ consistency.kind = "float" /\ consistency.val > 0
    /\ encoded_exemplars = EncodedExemplars /\ dimensions = Dimensions


Contains(text, tok) == \E k \in 1..Len(text) : text[k] = tok

\* C20: build_complete_prompt puts a cultural persona into the system
\* prompt if and only if the culture is not "baseline": for "baseline" the
\* system prompt is the fixed helpful-assistant text without "born ... in",
\* for a configured culture other than baseline it names the culture's name
\* and location, and a culture that is not configured raises ValueError.
C20_PersonaIffNotBaseline ==
    pc = "prompted" =>
        /\ culture = "baseline" =>
              /\ prompt.kind = "prompts"
              /\ prompt.system = NeutralSystemPrompt
              /\ ~Contains(prompt.system, PersonaBorn)
        /\ (culture \in DOMAIN CULTURAL_CONTEXTS /\ culture # "baseline") =>
              /\ prompt.kind = "prompts"
              /\ Contains(prompt.system, PersonaBorn)
              /\ Contains(prompt.system, CultureContext(culture).name)
              /\ Contains(prompt.system, CultureContext(culture).location)
        /\ culture \notin DOMAIN CULTURAL_CONTEXTS =>
              prompt = PromptRaised("ValueError")
        /\ prompt.kind = "prompts" =>
              (Contains(prompt.system, PersonaBorn) <=> culture # "baseline")

\* the baseline prompt, built after a prompt with a persona
C20_Witness ==
    /\ pc = "prompted" /\ culture = "baseline"
    /\ prompt.kind = "prompts" /\ prompt.system = NeutralSystemPrompt
    /\ Contains(prompt.user, DecisionMarker)

\* C21: every id the tests and entry points look up is found: the lookup
\* returns a scenario, not None, whose id is the requested id ("FAM001"
\* included), and no prompt built from a looked-up scenario fails for want
\* of a scenario.
C21_EveryLookedUpIdIsFound ==
    /\ pc \in {"looked_up", "prompted"} =>
          /\ looked_up.scenario.kind = "scenario"
          /\ looked_up.scenario.id = looked_up.requested
    /\ pc = "prompted" => ~(prompt.kind = "raised" /\ prompt.error = "AttributeError")


\* the positions of the relevant-dimension list that give a usable pair:
\* the dimension is configured and the culture's reference value is not null
UsablePositions(dims, cult) ==
    {k \in 1..Len(dims) :
        dims[k] \in DimensionSet /\ ~cultural_contexts[cult][dims[k]].isNone}

\* the squared (reference - inferred) differences at the usable positions,
\* 0 elsewhere
PairSquares(dims, cult, response_profile) ==
    [k \in 1..Len(dims) |->
        IF k \in UsablePositions(dims, cult)
        THEN SquaredDifference(cult, dims[k], response_profile)
        ELSE 0]

\* sqrt(mean(squared differences)) over the usable pairs
RootMeanSquaredDifference(dims, cult, response_profile) ==
    Sqrt(Sum(PairSquares(dims, cult, response_profile))
            \div Cardinality(UsablePositions(dims, cult)))

\* a successfully extracted response scored against a configured culture on
\* at least one usable pair, the embedding function having returned
ScoredOnPairs ==
    /\ pc = "aligned" /\ parsed.parse_success /\ ScoredCulture(culture)
    /\ UsableDimension(scenario_dimensions, culture)
    /\ profile.kind = "dict"

\* C22: for a successfully extracted response scored against a configured
\* culture with at least one usable pair, the alignment is
\* max(0, 10 - 2.5*d), d the square root of the mean squared difference
\* over the usable pairs; it lies in [0, 10], is 10 when every compared
\* difference is zero and 0 when every compared difference has magnitude 4.
C22_ScoreIsScaledDistance ==
    ScoredOnPairs =>
        LET d == RootMeanSquaredDifference(scenario_dimensions, culture, profile.dict)
            squares == PairSquares(scenario_dimensions, culture, profile.dict)
            usable == UsablePositions(scenario_dimensions, culture)
        IN  /\ alignment = Float(Max({0, 10000 - (d * 25) \div 10}))
            /\ alignment.val >= 0 /\ alignment.val <= 10000
            /\ (\A k \in usable : squares[k] = 0) => alignment.val = 10000
            /\ (\A k \in usable : squares[k] = 4000 * 4000) => alignment.val = 0

\* reference 2.0 and inferred -2.0 on the one compared dimension: score 0
C22_Witness ==
    /\ ScoredOnPairs /\ culture = "Mexico"
    /\ scenario_dimensions = <<"power_distance", "bogus">>
    /\ profile.dict["power_distance"] = 0 - 2000
    /\ alignment = Float(0)


\* the text the decision pattern captures at the first marker, trimmed
DecisionText(s) == Strip(DecisionGroup(s, Min(DecisionMatches(s))))

CanonicalLabels == {"Option A", "Option B", "Compromise", "Decline"}

SynonymsOf(label) ==
    CASE label = "Option A" -> OptionASynonyms
      [] label = "Option B" -> OptionBSynonyms
      [] label = "Compromise" -> CompromiseSynonyms
      [] label = "Decline" -> DeclineSynonyms

\* the categories that have a synonym in the text
CategoriesIn(text) == {label \in CanonicalLabels : ContainsAny(text, SynonymsOf(label))}

CategoryRank(label) ==
    CASE label = "Option A" -> 1
      [] label = "Option B" -> 2
      [] label = "Compromise" -> 3
      [] label = "Decline" -> 4

\* the category of the text that comes first in that order
EarliestCategory(text) ==
    CHOOSE label \in CategoriesIn(text) :
        \A other \in CategoriesIn(text) : CategoryRank(label) <= CategoryRank(other)

\* C26: the categories are tested in the order Option A, Option B,
\* Compromise, Decline and the first with a synonym in the decision text
\* wins: a text with synonyms of several categories is normalised to the
\* earliest of them, whatever label it starts with.
C26_EarliestCategoryWins ==
    (pc = "parsed" /\ DecisionMatches(raw) # {} /\ CategoriesIn(DecisionText(raw)) # {})
        => parsed.decision = SomeDecision(<<EarliestCategory(DecisionText(raw))>>)

\* "Option B Freedom": starts with Option B, normalised to Option A
C26_Witness ==
    /\ pc = "parsed" /\ raw = <<DecisionMarker, " ", "Option B", " ", "Freedom">>
    /\ CategoriesIn(DecisionText(raw)) = {"Option A", "Option B"}
    /\ parsed.decision = SomeDecision(<<"Option A">>)


\* a value without surrounding whitespace, without a pair of enclosing
\* brackets, without a newline and without two whitespace characters in a row
CleanedValue(v) ==
    /\ v # <<>> => (~IsWs(v[1]) /\ ~IsWs(v[Len(v)]))
    /\ ~(Len(v) >= 2 /\ v[1] = "[" /\ v[Len(v)] = "]")
    /\ \A k \in 1..Len(v) : v[k] # NL
    /\ \A k \in 1..(Len(v) - 1) : ~(IsWs(v[k]) /\ IsWs(v[k + 1]))

\* C24: every value of top_values has no leading or trailing whitespace, no
\* enclosing brackets and no internal run of more than one whitespace
\* character (no newline, no double space), also when a numbered or bulleted
\* item wraps across lines; a wrapped item is one value.
C24_ValuesAreCleaned ==
    pc = "parsed" =>
        /\ \A k \in 1..Len(parsed.top_values) : CleanedValue(parsed.top_values[k])
        /\ Len(parsed.top_values) = Min({ItemCount(raw), 3})


\* "l1, l2, ..., lk"
RECURSIVE CommaLine(_)
CommaLine(labels) ==
    IF Len(labels) = 1 THEN labels[1]
    ELSE labels[1] \o <<Comma, " ">> \o CommaLine(Tail(labels))

LabelLists == UNION {[1..n -> ValueLabels] : n \in 1..MaxLabels}

\* C25: when the values section is one line of k comma-separated labels of
\* the configured value options, top_values is the first min(k, 3) labels in
\* order and unaltered, labels with a hyphen such as Self-Expression included.
C25_CommaLabelsUnaltered ==
    pc = "parsed" =>
        \A labels \in LabelLists :
            raw = CommaHeader \o CommaLine(labels)
                => parsed.top_values = Take(labels, 3)


\* C27: every model key of config.MODELS is dispatched by call_model to a
\* provider call: no call for a configured key raises "Unknown provider".
C27_EveryConfiguredModelDispatched ==
    (reply.kind # "not_called" /\ reply.model_key \in DOMAIN MODELS)
        => ~(reply.kind = "raised" /\ reply.error = "ValueError: Unknown provider")


\* the provider invocations before this step that returned a non-empty
\* response for the request
StoredFor(request) ==
    {i \in 1..Len(api_calls) :
        /\ api_calls[i].request = request
        /\ ~api_calls[i].outcome.raises
        /\ api_calls[i].outcome.text # <<>>}

TotalCombinations ==
    Len(runner.scenarios) * Len(runner.models) * Len(runner.cultures) * runner.num_runs

\* the k-th combination in nested iteration order: scenarios outermost, then
\* models, cultures, runs
CombinationAt(k) ==
    LET R == runner.num_runs
        C == Len(runner.cultures)
        M == Len(runner.models)
        n == k - 1
    IN  [scenario_id |-> runner.scenarios[(n \div (R * C * M)) + 1],
         model |-> runner.models[((n \div (R * C)) % M) + 1],
         culture |-> runner.cultures[((n \div R) % C) + 1],
         run_num |-> n % R]

CombinationOf(rec) ==
    [scenario_id |-> rec.scenario_id, model |-> rec.model, culture |-> rec.culture,
     run_num |-> rec.run_num]

DidNotRaise(attempt) == ~attempt.raised

\* the attempts so far are the first combinations in iteration order, each
\* once; results holds one record per attempt that did not raise, in order;
\* the loops end only after the last combination; save_results is invoked
\* only then and at most once
RunInOrder ==
    /\ Len(attempts) <= TotalCombinations
    /\ \A k \in 1..Len(attempts) : CombinationOf(attempts[k]) = CombinationAt(k)
    /\ LET completed == SelectSeq(attempts, DidNotRaise)
       IN  /\ Len(results) = Len(completed)
           /\ \A j \in 1..Len(results) :
                 CombinationOf(results[j]) = CombinationOf(completed[j])
    /\ pc.at # "loop" => Len(attempts) = TotalCombinations
    /\ saves = (IF pc.at = "saved" THEN 1 ELSE 0)

\* C28: run_experiment attempts every (scenario, model, culture, run)
\* combination exactly once in nested iteration order; an exception in one
\* combination never prevents a later one from being attempted; at the end
\* results holds one record per combination that did not raise, in order,
\* and save_results has been invoked exactly once, after the last attempt.
C28_EveryCombinationAttemptedThenSaved ==
    /\ []RunInOrder
    /\ <>(saves = 1 /\ Len(attempts) = TotalCombinations)

\* the first combination raised, a later one did not, and the results were
\* saved
C28_Witness ==
    /\ pc.at = "saved" /\ saves = 1
    /\ Len(attempts) = 16 /\ attempts[1].raised
    /\ Len(results) >= 1 /\ Len(results) < Len(attempts)
    /\ results[1].scenario_id = "IND001"

\* the results hold a row whose alignment score is None
HasNoneAlignment(results_) ==
    \E i \in 1..Len(results_) : results_[i].metrics.cultural_alignment_score = None

NumericAlignments(metrics_list_) ==
    {i \in 1..Len(metrics_list_) : metrics_list_[i].cultural_alignment_score.kind = "float"}

\* C30: a result whose alignment score is None (the baseline culture) passes
\* through every consumer of EvaluationMetrics without an exception: it is
\* stored by evaluate_response, aggregate_metrics leaves it out of the
\* alignment mean and deviation (None when no numeric alignment exists), and
\* the metrics table and radar chart of the demo render a result set that
\* includes a baseline row.
C30_NoneAlignmentPassesEveryConsumer ==
    /\ \A i \in 1..Len(results) :
          results[i].culture = "baseline" =>
              results[i].metrics.cultural_alignment_score = None
    /\ aggregated.kind = "dict" =>
          /\ aggregated.mean_alignment.kind =
                 (IF NumericAlignments(metrics_list) = {} THEN "None" ELSE "float")
          /\ aggregated.std_alignment.kind = aggregated.mean_alignment.kind
    /\ HasNoneAlignment(results) => rendered.kind # "raised"

=============================================================================
